---- MODULE Spec2Model ----
(***************************************************************************)
(* A model of the smells_phishy backend: the in-memory rate limiter        *)
(* (src/src/server/lib/rate-limit.ts), the scan router                     *)
(* (src/src/server/lib/gemini.ts, second half), the threat-intelligence    *)
(* client (src/src/server/lib/threat-apis.ts) and the URL extractor,       *)
(* sanitizer and quota-aware Gemini client (src/unnamed/part_002).         *)
(*                                                                         *)
(* The deployment modelled is the one without Upstash credentials:         *)
(* upstashRatelimit stays null (rate-limit.ts:19-31) and checkRateLimit    *)
(* always takes the in-memory path (rate-limit.ts:53-84).                  *)
(*                                                                         *)
(* Time is Date.now() in milliseconds.  Text is a sequence of characters;  *)
(* a header value is a sequence of characters or None.                     *)
(***************************************************************************)
EXTENDS Integers, Sequences, FiniteSets, TLC

VARIABLES
    now,              \* Date.now()
    inMemoryStore,    \* rate-limit.ts:11  Map identifier -> {count, resetAt}
    lastCall,         \* the last checkRateLimit call and what it returned
    window,           \* observer: per identifier, the window that began at the first admitted call
    admitLog,         \* observer: the admission times of one caller in the last hour
    clientWindow,     \* observer: the window that began at the client's first admitted request
    urlscanKey,       \* env.URLSCAN_API_KEY is set
    dailyCallCount,   \* part_002:108
    lastResetDate,    \* part_002:109
    minuteCallTimestamps,  \* part_002:115
    req,              \* the requests being served, by slot
    started,          \* the number of requests received so far
    geminiCall,       \* a direct call of analyzeWithGemini: its reply and its result
    quotaLog,         \* observer: the quota checks of such calls and the model calls started
    extraction        \* a direct call of extractUrlsAndDomains: its text and its result

limiterVars == <<now, inMemoryStore, lastCall, window, admitLog>>

quotaVars == <<dailyCallCount, lastResetDate, minuteCallTimestamps>>

vars == <<now, inMemoryStore, lastCall, window, admitLog, clientWindow, urlscanKey,
          dailyCallCount, lastResetDate, minuteCallTimestamps, req, started,
          geminiCall, quotaLog, extraction>>

None == "none"

(***************************************************************************)
(* Bounds of the model.                                                    *)
(***************************************************************************)
\* the clock advances at most this many times
MaxTicks == 4

\* the scan router receives at most this many requests
MaxRequests == 2

(***************************************************************************)
(* rate-limit.ts                                                           *)
(***************************************************************************)
WINDOW_MS == 60 * 60 * 1000

MAX_REQUESTS_PER_WINDOW == 10

\* one advance of the clock: a third of the window, so that a call can fall
\* before, exactly at and after resetAt
TickMs == WINDOW_MS \div 3

Identifiers == { <<"a">>, <<"b">> }

\* inMemoryStore.get(identifier) is undefined: the key is absent
StoreHas(store, identifier) == identifier \in DOMAIN store

\* inMemoryStore.set(identifier, record)
StoreSet(store, identifier, record) ==
    [k \in (DOMAIN store) \cup {identifier} |->
        IF k = identifier THEN record ELSE store[k]]

\* a variant of the limiter that refuses one request too late (count > MAX)
checkRateLimitOffByOne(store, identifier, t) ==
    LET record == store[identifier] IN
    IF ~StoreHas(store, identifier) \/ t > record.resetAt
    THEN [store  |-> StoreSet(store, identifier, [count |-> 1, resetAt |-> t + WINDOW_MS]),
          result |-> [success |-> TRUE,
                      remaining |-> MAX_REQUESTS_PER_WINDOW - 1,
                      reset |-> t + WINDOW_MS]]
    ELSE IF record.count > MAX_REQUESTS_PER_WINDOW
    THEN [store  |-> store,
          result |-> [success |-> FALSE, remaining |-> 0, reset |-> record.resetAt]]
    ELSE [store  |-> StoreSet(store, identifier, [record EXCEPT !.count = @ + 1]),
          result |-> [success |-> TRUE,
                      remaining |-> MAX_REQUESTS_PER_WINDOW - (record.count + 1),
                      reset |-> record.resetAt]]

\* a limiter whose window ends at resetAt already (now >= resetAt)
checkRateLimitEndsAtReset(store, identifier, t) ==
    LET record == store[identifier] IN
    IF ~StoreHas(store, identifier) \/ t >= record.resetAt
    THEN [store  |-> StoreSet(store, identifier, [count |-> 1, resetAt |-> t + WINDOW_MS]),
          result |-> [success |-> TRUE,
                      remaining |-> MAX_REQUESTS_PER_WINDOW - 1,
                      reset |-> t + WINDOW_MS]]
    ELSE IF record.count >= MAX_REQUESTS_PER_WINDOW
    THEN [store  |-> store,
          result |-> [success |-> FALSE, remaining |-> 0, reset |-> record.resetAt]]
    ELSE [store  |-> StoreSet(store, identifier, [record EXCEPT !.count = @ + 1]),
          result |-> [success |-> TRUE,
                      remaining |-> MAX_REQUESTS_PER_WINDOW - (record.count + 1),
                      reset |-> record.resetAt]]

\* checkRateLimit(identifier) at Date.now() = t, in-memory path: the store
\* after the call and the RateLimitResult returned
checkRateLimit(store, identifier, t) ==
    LET record == store[identifier] IN
    IF ~StoreHas(store, identifier) \/ t > record.resetAt
    THEN [store  |-> StoreSet(store, identifier, [count |-> 1, resetAt |-> t + WINDOW_MS]),
          result |-> [success |-> TRUE,
                      remaining |-> MAX_REQUESTS_PER_WINDOW - 1,
                      reset |-> t + WINDOW_MS]]
    ELSE IF record.count >= MAX_REQUESTS_PER_WINDOW
    THEN [store  |-> store,
          result |-> [success |-> FALSE, remaining |-> 0, reset |-> record.resetAt]]
    ELSE [store  |-> StoreSet(store, identifier, [record EXCEPT !.count = @ + 1]),
          result |-> [success |-> TRUE,
                      remaining |-> MAX_REQUESTS_PER_WINDOW - (record.count + 1),
                      reset |-> record.resetAt]]

\* a cleanup that deletes every record
cleanupInMemoryStoreAll(store, t) == << >>

\* cleanupInMemoryStore() at Date.now() = t
cleanupInMemoryStore(store, t) ==
    [k \in {i \in DOMAIN store : ~(t > store[i].resetAt)} |-> store[k]]

(***************************************************************************)
(* part_002:1-85  URL extraction and the sanitizer.                        *)
(* A text is a sequence of one-character strings.  The one exception is    *)
(* BlobRun, which stands for BlobRunLen consecutive characters "A" (a long *)
(* base64 run) and counts as that many characters.                         *)
(***************************************************************************)
BlobRun == "A{500}"

\* the {500,} of the long-string pattern (part_002:82)
BlobRunLen == 500

CharLen(c) == IF c = BlobRun THEN BlobRunLen ELSE 1

\* the i flag of the patterns: the upper-case letters the texts use
Lower(c) ==
    CASE c = "H" -> "h" [] c = "W" -> "w" [] c = "D" -> "d" [] c = "E" -> "e"
      [] c = "I" -> "i" [] c = "M" -> "m" [] c = "A" -> "a" [] c = "G" -> "g"
      [] c = "R" -> "r" [] c = "O" -> "o" [] c = "V" -> "v" [] c = "N" -> "n"
      [] c = "C" -> "c" [] c = "T" -> "t" [] c = BlobRun -> BlobRun
      [] OTHER -> c

LowerLetters == {"a","b","c","d","e","g","h","i","l","m","n","o","p","r","s","t","v","w","x"}
UpperLetters == {"A","C","D","E","G","H","I","M","N","O","R","T","V","W"}
Digits == {"4","6"}

\* [a-zA-Z]
IsLetter(c) == c \in LowerLetters \cup UpperLetters \cup {BlobRun}
\* [a-zA-Z0-9+/=]
IsBase64(c) == IsLetter(c) \/ c \in Digits \cup {"+", "/", "="}
\* \s
IsSpace(c) == c \in {" ", "\n"}
\* [^\s<>"')\]]
IsUrlChar(c) == ~IsSpace(c) /\ c \notin {"<", ">", "\"", "'", ")", "]"}

Http == <<"h","t","t","p",":","/","/">>
Https == <<"h","t","t","p","s",":","/","/">>
Www == <<"w","w","w",".">>
DataImage == <<"d","a","t","a",":","i","m","a","g","e","/">>
Base64Tag == <<";","b","a","s","e","6","4",",">>
ImageRemoved == <<"[","I","M","A","G","E"," ","R","E","M","O","V","E","D","]">>
EncodedRemoved == <<"[","E","N","C","O","D","E","D"," ","C","O","N","T","E","N","T"," ",
                    "R","E","M","O","V","E","D","]">>

\* s continues at position i with the literal lit, letters compared without case
MatchesAt(s, i, lit) ==
    /\ i + Len(lit) - 1 <= Len(s)
    /\ \A k \in 1..Len(lit) : Lower(s[i + k - 1]) = lit[k]

\* s continues at position i with the literal lit, compared exactly (startsWith)
StartsWith(s, lit) ==
    /\ Len(lit) <= Len(s)
    /\ \A k \in 1..Len(lit) : s[k] = lit[k]

\* the last position of the longest run of characters satisfying P that begins
\* at position i (i - 1 when s[i] does not satisfy P)
\* the character classes of the patterns, by name
InClass(cls, c) ==
    CASE cls = "letter" -> IsLetter(c)
      [] cls = "base64" -> IsBase64(c)
      [] cls = "url"    -> IsUrlChar(c)
      [] cls = "host"   -> ~IsSpace(c) /\ c \notin {"/", ":"}

RECURSIVE RunEnd(_, _, _)
RunEnd(s, i, cls) ==
    IF i <= Len(s) /\ InClass(cls, s[i]) THEN RunEnd(s, i + 1, cls) ELSE i - 1

\* URL_REGEX (part_002:7) tried at position i: the last position of the match,
\* or 0 when there is none
UrlMatchEnd(s, i) ==
    LET after(n) == IF i + n <= Len(s) /\ IsUrlChar(s[i + n])
                    THEN RunEnd(s, i + n, "url") ELSE 0
    IN  IF MatchesAt(s, i, Https) /\ after(Len(Https)) > 0 THEN after(Len(Https))
        ELSE IF MatchesAt(s, i, Http) /\ after(Len(Http)) > 0 THEN after(Len(Http))
        ELSE IF MatchesAt(s, i, Www) /\ after(Len(Www)) > 0 THEN after(Len(Www))
        ELSE 0

\* text.match(URL_REGEX) with the g flag: the matches from position i on, in order
RECURSIVE UrlMatches(_, _)
UrlMatches(s, i) ==
    IF i > Len(s) THEN << >>
    ELSE LET e == UrlMatchEnd(s, i) IN
         IF e > 0 THEN <<SubSeq(s, i, e)>> \o UrlMatches(s, e + 1)
         ELSE UrlMatches(s, i + 1)

\* [...new Set(xs)]: the first occurrence of every element, in order
RECURSIVE Dedupe(_)
Dedupe(xs) ==
    IF xs = << >> THEN << >>
    ELSE LET front == Dedupe(SubSeq(xs, 1, Len(xs) - 1))
             last  == xs[Len(xs)]
         IN  IF \E k \in 1..Len(front) : front[k] = last THEN front
             ELSE Append(front, last)

\* xs.map(f)
MapSeq(xs, f(_)) == [k \in 1..Len(xs) |-> f(xs[k])]

\* part_002:25-31, the map callback
AddProtocol(url) == IF StartsWith(url, Www) THEN Http \o url ELSE url

\* extractUrls(text), part_002:20-34
extractUrls(text) == MapSeq(Dedupe(UrlMatches(text, 1)), AddProtocol)

\* the value extractDomain gives when DOMAIN_REGEX does not match
NoDomain == << >>

\* extractDomain(url), part_002:39-42, with DOMAIN_REGEX (part_002:10)
extractDomain(url) ==
    LET p1 == IF MatchesAt(url, 1, Https) THEN Len(Https) + 1
              ELSE IF MatchesAt(url, 1, Http) THEN Len(Http) + 1 ELSE 1
        host(p) == SubSeq(url, p, RunEnd(url, p, "host"))
        p2 == IF MatchesAt(url, p1, Www) /\ host(p1 + Len(Www)) # << >>
              THEN p1 + Len(Www) ELSE p1
        \* the optional groups give their characters back when nothing would be
        \* left for the capture
        h  == IF host(p2) # << >> THEN host(p2)
              ELSE IF host(p1) # << >> THEN host(p1) ELSE host(1)
    IN  MapSeq(h, Lower)

\* extractUrlsAndDomains(text), part_002:59-69
extractUrlsAndDomains(text) ==
    LET urls == extractUrls(text)
        domains == SelectSeq(MapSeq(urls, extractDomain), LAMBDA d : d # NoDomain)
    IN  [urls |-> urls, domains |-> Dedupe(domains)]

\* the first replace of sanitizeEmailContent (part_002:76-79) tried at position
\* i: the last position of the match, or 0
ImageMatchEnd(s, i) ==
    IF ~MatchesAt(s, i, DataImage) THEN 0
    ELSE LET j == RunEnd(s, i + Len(DataImage), "letter") IN
         IF j < i + Len(DataImage) \/ ~MatchesAt(s, j + 1, Base64Tag) THEN 0
         ELSE LET k == RunEnd(s, j + 1 + Len(Base64Tag), "base64") IN
              IF k < j + 1 + Len(Base64Tag) THEN 0 ELSE k

RECURSIVE RemoveImages(_, _)
RemoveImages(s, i) ==
    IF i > Len(s) THEN << >>
    ELSE LET e == ImageMatchEnd(s, i) IN
         IF e > 0 THEN ImageRemoved \o RemoveImages(s, e + 1)
         ELSE <<s[i]>> \o RemoveImages(s, i + 1)

\* the number of characters s[i..j] stands for
RECURSIVE SpanLen(_, _, _)
SpanLen(s, i, j) == IF i > j THEN 0 ELSE CharLen(s[i]) + SpanLen(s, i + 1, j)

\* the second replace of sanitizeEmailContent (part_002:82)
RECURSIVE RemoveLongStrings(_, _)
RemoveLongStrings(s, i) ==
    IF i > Len(s) THEN << >>
    ELSE LET e == RunEnd(s, i, "base64") IN
         IF e >= i /\ SpanLen(s, i, e) >= BlobRunLen
         THEN EncodedRemoved \o RemoveLongStrings(s, e + 1)
         ELSE IF e >= i THEN SubSeq(s, i, e) \o RemoveLongStrings(s, e + 1)
         ELSE <<s[i]>> \o RemoveLongStrings(s, i + 1)

\* String.prototype.trim
RECURSIVE Trim(_)
Trim(s) ==
    IF s = << >> THEN s
    ELSE IF IsSpace(s[1]) THEN Trim(Tail(s))
    ELSE IF IsSpace(s[Len(s)]) THEN Trim(SubSeq(s, 1, Len(s) - 1))
    ELSE s

\* sanitizeEmailContent(text), part_002:74-85
sanitizeEmailContent(text) ==
    Trim(RemoveLongStrings(RemoveImages(text, 1), 1))

(***************************************************************************)
(* threat-apis.ts:1-239  The threat-intelligence client.                   *)
(* The two services answer from their databases: Safe Browsing knows the   *)
(* URLs of MaliciousUrls, urlscan.io the hostnames of MaliciousDomains.    *)
(* An HTTP call ends in one of FetchOutcomes.                              *)
(***************************************************************************)
MAX_URLS_PER_CHECK == 3

\* threat-apis.ts:152  domains.slice(0, 2)
URLSCAN_DOMAINS == 2

EvilUrl == Http \o <<"e",".","c","o","/","x">>
GoodUrl == Http \o <<"a",".","c","o">>
MaliciousUrls == {EvilUrl}
MaliciousDomains == {<<"e",".","c","o">>}

\* threat-apis.ts:22, in milliseconds
API_TIMEOUT == 3000

\* a fetch answers 2xx, answers with another status, is aborted by the
\* timer (AbortError), or fails otherwise
FetchOutcomes == {"ok", "http_error", "timeout", "network"}

Undefined == "undefined"

\* xs.slice(0, n)
Slice(xs, n) == SubSeq(xs, 1, IF Len(xs) < n THEN Len(xs) ELSE n)

ThreatCheckResult(provider, status, details, matchedUrls) ==
    [provider |-> provider, status |-> status, details |-> details,
     matchedUrls |-> matchedUrls]

\* a checkGoogleSafeBrowsing that puts every URL in the request
UrlsToCheckAll(urls) == urls

\* checkGoogleSafeBrowsing, threat-apis.ts:66-67: the URLs put in the request
UrlsToCheck(urls) == Slice(urls, MAX_URLS_PER_CHECK)

\* checkGoogleSafeBrowsing, threat-apis.ts:87-125: the result once the fetch
\* for urlsToCheck has ended with the given outcome
GoogleSafeBrowsingResult(urlsToCheck, outcome) ==
    LET matches == SelectSeq(urlsToCheck, LAMBDA u : u \in MaliciousUrls) IN
    CASE outcome = "http_error" ->
            ThreatCheckResult("Google Safe Browsing", "ERROR", Undefined, << >>)
      [] outcome = "timeout" ->
            ThreatCheckResult("Google Safe Browsing", "ERROR", "Request timeout", << >>)
      [] outcome = "network" ->
            ThreatCheckResult("Google Safe Browsing", "ERROR", Undefined, << >>)
      [] outcome = "ok" ->
            IF Len(matches) > 0
            THEN ThreatCheckResult("Google Safe Browsing", "MALICIOUS",
                                   "Flagged as: SOCIAL_ENGINEERING", matches)
            ELSE ThreatCheckResult("Google Safe Browsing", "SAFE", Undefined, << >>)

\* checkGoogleSafeBrowsing, threat-apis.ts:59-61: no URL, no fetch
GoogleSafeBrowsingEmpty ==
    ThreatCheckResult("Google Safe Browsing", "SAFE", Undefined, << >>)

\* checkUrlscan, threat-apis.ts:152: the domains the loop visits
DomainsToScan(domains) == Slice(domains, URLSCAN_DOMAINS)

\* checkUrlscan, threat-apis.ts:163-171: matchedDomains after the answer for
\* one domain
UrlscanMatched(matchedDomains, domain, outcome) ==
    IF outcome = "ok" /\ domain \in MaliciousDomains
    THEN Append(matchedDomains, domain) ELSE matchedDomains

\* checkUrlscan, threat-apis.ts:184-190: a fetch of the loop threw
UrlscanThrown(outcome) ==
    IF outcome = "timeout"
    THEN ThreatCheckResult("urlscan.io", "ERROR", "Request timeout", << >>)
    ELSE ThreatCheckResult("urlscan.io", "ERROR", Undefined, << >>)

\* checkUrlscan, threat-apis.ts:174-183: the loop has ended
UrlscanFinished(matchedDomains) ==
    IF Len(matchedDomains) > 0
    THEN ThreatCheckResult("urlscan.io", "MALICIOUS",
                           "Domain has historical malicious verdicts", matchedDomains)
    ELSE ThreatCheckResult("urlscan.io", "SAFE", Undefined, << >>)

\* a runThreatIntelligenceChecks that goes on to urlscan.io whatever Safe
\* Browsing said
UrlscanQueriedAlways(googleResult, key, domains) == key /\ Len(domains) > 0

\* runThreatIntelligenceChecks, threat-apis.ts:223-229: checkUrlscan is called
\* and, with a key and domains, makes its first query (threat-apis.ts:136-156)
UrlscanQueried(googleResult, key, domains) ==
    googleResult.status # "MALICIOUS" /\ key /\ Len(domains) > 0

\* the template string of processResult, threat-apis.ts:212-215, kept in parts
MaliciousReason(result) ==
    [provider |-> result.provider,
     details  |-> IF result.details = Undefined THEN "Threat detected" ELSE result.details,
     matched  |-> result.matchedUrls]

\* processResult, threat-apis.ts:209-217, on the running {results, maliciousReasons}
processResult(acc, result) ==
    [results |-> Append(acc.results, result),
     maliciousReasons |->
        IF result.status = "MALICIOUS"
        THEN Append(acc.maliciousReasons, MaliciousReason(result))
        ELSE acc.maliciousReasons]

NoThreatResults == [results |-> << >>, maliciousReasons |-> << >>]

\* a runThreatIntelligenceChecks that counts a provider's failure as a finding
ThreatResultsFailClosed(acc, shortCircuit) ==
    [isMalicious |-> \/ shortCircuit
                     \/ Len(acc.maliciousReasons) > 0
                     \/ \E k \in DOMAIN acc.results : acc.results[k].status = "ERROR",
     results |-> acc.results,
     maliciousReasons |-> acc.maliciousReasons]

\* runThreatIntelligenceChecks, threat-apis.ts:224-226 and 234-238: what is returned
ThreatResults(acc, shortCircuit) ==
    [isMalicious |-> IF shortCircuit THEN TRUE ELSE Len(acc.maliciousReasons) > 0,
     results |-> acc.results,
     maliciousReasons |-> acc.maliciousReasons]

(***************************************************************************)
(* part_002:88-303  The quota-aware Gemini client.                         *)
(***************************************************************************)
DAILY_LIMIT == 1400

MINUTE_LIMIT == 14

\* part_002:140  now - 60000
MINUTE_MS == 60000

DAY_MS == 24 * 60 * 60 * 1000

\* new Date(t).toDateString(): the calendar day of t (in UTC)
toDateString(t) == t \div DAY_MS

\* the while loop of part_002:141-143
RECURSIVE ShiftExpired(_, _)
ShiftExpired(timestamps, oneMinuteAgo) ==
    IF Len(timestamps) > 0 /\ timestamps[1] < oneMinuteAgo
    THEN ShiftExpired(Tail(timestamps), oneMinuteAgo)
    ELSE timestamps

DailyReason == "Daily AI analysis limit reached. Try again tomorrow."
MinuteReason == "Rate limit reached. Please wait a moment and try again."

\* a checkAndUpdateQuota that lets one call more through each day
checkAndUpdateQuotaDailyOffByOne(q, t) ==
    LET today == toDateString(t)
        q1 == IF today # q.lastResetDate
              THEN [q EXCEPT !.dailyCallCount = 0, !.lastResetDate = today]
              ELSE q
        q2 == [q1 EXCEPT !.minuteCallTimestamps = ShiftExpired(@, t - MINUTE_MS)]
    IN  IF q1.dailyCallCount > DAILY_LIMIT
        THEN [q |-> q1, allowed |-> FALSE, reason |-> DailyReason]
        ELSE IF Len(q2.minuteCallTimestamps) >= MINUTE_LIMIT
        THEN [q |-> q2, allowed |-> FALSE, reason |-> MinuteReason]
        ELSE [q |-> [q2 EXCEPT !.dailyCallCount = @ + 1,
                               !.minuteCallTimestamps = Append(@, t)],
              allowed |-> TRUE, reason |-> Undefined]

\* a checkAndUpdateQuota that lets one call more through each minute
checkAndUpdateQuotaMinuteOffByOne(q, t) ==
    LET today == toDateString(t)
        q1 == IF today # q.lastResetDate
              THEN [q EXCEPT !.dailyCallCount = 0, !.lastResetDate = today]
              ELSE q
        q2 == [q1 EXCEPT !.minuteCallTimestamps = ShiftExpired(@, t - MINUTE_MS)]
    IN  IF q1.dailyCallCount >= DAILY_LIMIT
        THEN [q |-> q1, allowed |-> FALSE, reason |-> DailyReason]
        ELSE IF Len(q2.minuteCallTimestamps) > MINUTE_LIMIT
        THEN [q |-> q2, allowed |-> FALSE, reason |-> MinuteReason]
        ELSE [q |-> [q2 EXCEPT !.dailyCallCount = @ + 1,
                               !.minuteCallTimestamps = Append(@, t)],
              allowed |-> TRUE, reason |-> Undefined]

\* a checkAndUpdateQuota that counts the call before it looks at the minute
checkAndUpdateQuotaCountsRefused(q, t) ==
    LET today == toDateString(t)
        q1 == IF today # q.lastResetDate
              THEN [q EXCEPT !.dailyCallCount = 0, !.lastResetDate = today]
              ELSE q
        q2 == [q1 EXCEPT !.minuteCallTimestamps = ShiftExpired(@, t - MINUTE_MS)]
    IN  IF q1.dailyCallCount >= DAILY_LIMIT
        THEN [q |-> q1, allowed |-> FALSE, reason |-> DailyReason]
        ELSE IF Len(q2.minuteCallTimestamps) >= MINUTE_LIMIT
        THEN [q |-> [q2 EXCEPT !.dailyCallCount = @ + 1],
              allowed |-> FALSE, reason |-> MinuteReason]
        ELSE [q |-> [q2 EXCEPT !.dailyCallCount = @ + 1,
                               !.minuteCallTimestamps = Append(@, t)],
              allowed |-> TRUE, reason |-> Undefined]

\* a checkAndUpdateQuota that refuses every call
checkAndUpdateQuotaClosed(q, t) ==
    [q |-> q, allowed |-> FALSE, reason |-> DailyReason]

\* checkAndUpdateQuota() at Date.now() = t, part_002:121-158, on the quota state
\* q = [dailyCallCount, lastResetDate, minuteCallTimestamps]: the state after
\* the call and what it returns
checkAndUpdateQuota(q, t) ==
    LET today == toDateString(t)
        q1 == IF today # q.lastResetDate
              THEN [q EXCEPT !.dailyCallCount = 0, !.lastResetDate = today]
              ELSE q
        q2 == [q1 EXCEPT !.minuteCallTimestamps = ShiftExpired(@, t - MINUTE_MS)]
    IN  IF q1.dailyCallCount >= DAILY_LIMIT
        THEN [q |-> q1, allowed |-> FALSE, reason |-> DailyReason]
        ELSE IF Len(q2.minuteCallTimestamps) >= MINUTE_LIMIT
        THEN [q |-> q2, allowed |-> FALSE, reason |-> MinuteReason]
        ELSE [q |-> [q2 EXCEPT !.dailyCallCount = @ + 1,
                               !.minuteCallTimestamps = Append(@, t)],
              allowed |-> TRUE, reason |-> Undefined]

\* getQuotaStatus() at Date.now() = t, part_002:163-179, on the quota state q:
\* it reads dailyCallCount and minuteCallTimestamps and assigns nothing
getQuotaStatus(q, t) ==
    LET oneMinuteAgo == t - 60000
        recentCalls == Len(SelectSeq(q.minuteCallTimestamps, LAMBDA x : x >= oneMinuteAgo))
        max0(n) == IF n > 0 THEN n ELSE 0
    IN  [dailyRemaining |-> max0(DAILY_LIMIT - q.dailyCallCount),
         minuteRemaining |-> max0(MINUTE_LIMIT - recentCalls),
         dailyLimit |-> DAILY_LIMIT]

(***************************************************************************)
(* JavaScript numbers: an integer or NaN.                                  *)
(***************************************************************************)
Num(n) == [nan |-> FALSE, v |-> n]
NaN == [nan |-> TRUE, v |-> 0]

MathMin(a, b) == IF a.nan \/ b.nan THEN NaN ELSE IF a.v < b.v THEN a ELSE b
MathMax(a, b) == IF a.nan \/ b.nan THEN NaN ELSE IF a.v > b.v THEN a ELSE b
\* a < b and a <= b; false when either is NaN
Less(a, b) == ~a.nan /\ ~b.nan /\ a.v < b.v
LessEq(a, b) == ~a.nan /\ ~b.nan /\ a.v <= b.v

(***************************************************************************)
(* What the model replies.  The text is a sequence of tokens: "prose",     *)
(* "ws" (white space), a code fence "fence" or "fence_json" (three back    *)
(* ticks, with json after them or not), and "{json}", the                  *)
(* place of a JSON document; doc is the document that stands there.  A     *)
(* field of a document is a JSON value [t, v]: a number, a string that     *)
(* reads as a number, another string, true, null, or missing.              *)
(***************************************************************************)
JsonNumber(n) == [t |-> "number", v |-> n]
JsonNumeral(n) == [t |-> "numeral", v |-> n]
JsonText == [t |-> "text", v |-> 0]
JsonTrue == [t |-> "true", v |-> 0]
JsonNull == [t |-> "null", v |-> 0]
JsonMissing == [t |-> "missing", v |-> 0]

\* ToNumber, as Math.min applies it to its argument
ToNumber(j) ==
    CASE j.t = "number"  -> Num(j.v)
      [] j.t = "numeral" -> Num(j.v)
      [] j.t = "text"    -> NaN
      [] j.t = "true"    -> Num(1)
      [] j.t = "null"    -> Num(0)
      [] j.t = "missing" -> NaN

IsFence(tok) == tok \in {"fence", "fence_json"}

\* the position of the first fence at or after i, or 0
RECURSIVE FenceFrom(_, _)
FenceFrom(text, i) ==
    IF i > Len(text) THEN 0
    ELSE IF IsFence(text[i]) THEN i ELSE FenceFrom(text, i + 1)

\* part_002:260-264: the text handed to JSON.parse
JsonStr(text) ==
    LET open  == FenceFrom(text, 1)
        close == IF open = 0 THEN 0 ELSE FenceFrom(text, open + 1)
    IN  IF close = 0 THEN text
        ELSE SelectSeq(SubSeq(text, open + 1, close - 1), LAMBDA tok : tok # "ws")

\* JSON.parse(jsonStr) succeeds: one document, white space around it allowed
Parses(jsonStr) == SelectSeq(jsonStr, LAMBDA tok : tok # "ws") = <<"{json}">>

\* analysis.score and the like: a property of a non-object is undefined
Field(doc, name) ==
    IF doc.type # "object" THEN JsonMissing
    ELSE CASE name = "score" -> doc.score [] name = "summary" -> doc.summary

\* the thresholds with 30 on the SAFE side
VerdictOfInclusive(score) ==
    IF LessEq(score, Num(30)) THEN "SAFE"
    ELSE IF LessEq(score, Num(70)) THEN "SUSPICIOUS"
    ELSE "DANGER"

\* part_002:277-283
VerdictOf(score) ==
    IF Less(score, Num(30)) THEN "SAFE"
    ELSE IF LessEq(score, Num(70)) THEN "SUSPICIOUS"
    ELSE "DANGER"

GeminiAnalysisResult(score, verdict, reasons, summary, quotaExceeded) ==
    [score |-> score, verdict |-> verdict, reasons |-> reasons,
     summary |-> summary, quotaExceeded |-> quotaExceeded]

\* part_002:291-300, the catch block
GeminiFallback ==
    GeminiAnalysisResult(Num(50), "SUSPICIOUS",
        <<"Unable to complete AI analysis - proceed with caution">>,
        "AI analysis encountered an error", FALSE)

\* a refusal that is reported like a failure of the model call
GeminiQuotaExceededAsError(reason) ==
    GeminiAnalysisResult(Num(50), "SUSPICIOUS",
        <<"Unable to complete AI analysis - proceed with caution">>,
        "AI analysis encountered an error", FALSE)

\* part_002:223-231, the quota is used up
GeminiQuotaExceeded(reason) ==
    GeminiAnalysisResult(Num(50), "SUSPICIOUS",
        <<IF reason = Undefined THEN "AI analysis temporarily unavailable" ELSE reason>>,
        "Quota limit reached - using conservative assessment", TRUE)

\* an analyzeWithGemini that hands on every reason of the model
GeminiResultAllReasons(reply) ==
    IF reply.kind = "throw" \/ ~Parses(JsonStr(reply.text)) \/ reply.doc.type = "null"
    THEN GeminiFallback
    ELSE LET analysis == reply.doc
             score == MathMax(Num(0), MathMin(Num(100), ToNumber(Field(analysis, "score"))))
             reasons == IF analysis.type = "object" /\ analysis.reasons.isArray
                        THEN analysis.reasons.items ELSE << >>
             summary == IF Field(analysis, "summary").t \in {"missing", "null"}
                        THEN "Analysis complete" ELSE "summary"
         IN  GeminiAnalysisResult(score, VerdictOf(score), reasons, summary, FALSE)

\* part_002:254-301: the result of analyzeWithGemini once generateContent has
\* ended with the given reply
GeminiResult(reply) ==
    IF reply.kind = "throw" \/ ~Parses(JsonStr(reply.text)) \/ reply.doc.type = "null"
    THEN GeminiFallback
    ELSE LET analysis == reply.doc
             score == MathMax(Num(0), MathMin(Num(100), ToNumber(Field(analysis, "score"))))
             reasons == IF analysis.type = "object" /\ analysis.reasons.isArray
                        THEN Slice(analysis.reasons.items, 5) ELSE << >>
             summary == IF Field(analysis, "summary").t \in {"missing", "null"}
                        THEN "Analysis complete" ELSE "summary"
         IN  GeminiAnalysisResult(score, VerdictOf(score), reasons, summary, FALSE)

(***************************************************************************)
(* gemini.ts:128-278  The scan router.                                     *)
(***************************************************************************)
Header(value) == [present |-> TRUE, value |-> value]
NoHeader == [present |-> FALSE, value |-> << >>]

\* s.split(",")[0]
RECURSIVE SplitFirst(_)
SplitFirst(s) ==
    IF s = << >> \/ s[1] = "," THEN << >> ELSE <<s[1]>> \o SplitFirst(Tail(s))

Anonymous == <<"anonymous">>

\* getClientIp(headers), gemini.ts:167-174
getClientIp(headers) ==
    IF headers.xForwardedFor.present THEN Trim(SplitFirst(headers.xForwardedFor.value))
    ELSE IF headers.xRealIp.present THEN headers.xRealIp.value
    ELSE IF headers.cfConnectingIp.present THEN headers.cfConnectingIp.value
    ELSE Anonymous

\* a key that keeps one counter for each procedure
RateLimitKeyPerEndpoint(endpoint, clientIp) == <<endpoint>> \o clientIp

\* gemini.ts:188 and 245: the key both procedures hand to checkRateLimit
RateLimitKey(endpoint, clientIp) == clientIp

\* a router that never refuses
RateLimitRefusedNever(rateLimit) == FALSE

\* gemini.ts:190 and 247: the request is refused
RateLimitRefused(rateLimit) == ~rateLimit.success

\* an analyzeText that leaves input.urls out of the list
AnalyzeTextPrepareNoClientUrls(text, urls) ==
    LET sanitizedText == sanitizeEmailContent(text)
        extracted == extractUrlsAndDomains(sanitizedText)
    IN  [sanitizedText |-> sanitizedText,
         extractInput  |-> sanitizedText,
         domains       |-> extracted.domains,
         allUrls       |-> Dedupe(extracted.urls),
         aiInput       |-> sanitizedText]

\* an analyzeText that extracts from the text as it came in
AnalyzeTextPrepareRaw(text, urls) ==
    LET sanitizedText == sanitizeEmailContent(text)
        extracted == extractUrlsAndDomains(text)
    IN  [sanitizedText |-> sanitizedText,
         extractInput  |-> text,
         domains       |-> extracted.domains,
         allUrls       |-> Dedupe(extracted.urls \o urls),
         aiInput       |-> sanitizedText]

\* gemini.ts:197-204 and 223: analyzeText between the rate-limit check and
\* the threat-intelligence call, and the text it hands to analyzeWithGemini
AnalyzeTextPrepare(text, urls) ==
    LET sanitizedText == sanitizeEmailContent(text)
        extracted == extractUrlsAndDomains(sanitizedText)
    IN  [sanitizedText |-> sanitizedText,
         extractInput  |-> sanitizedText,
         domains       |-> extracted.domains,
         allUrls       |-> Dedupe(extracted.urls \o urls),
         aiInput       |-> sanitizedText]

\* new URL(url).hostname, gemini.ts:254-260: NoDomain for what is no URL
Hostname(url) ==
    LET p == IF MatchesAt(url, 1, Https) THEN Len(Https) + 1
             ELSE IF MatchesAt(url, 1, Http) THEN Len(Http) + 1 ELSE 0
    IN  IF p = 0 THEN NoDomain
        ELSE MapSeq(SubSeq(url, p, RunEnd(url, p, "host")), Lower)

\* gemini.ts:254-262: checkUrls between the rate-limit check and the
\* threat-intelligence call
CheckUrlsPrepare(urls) ==
    [sanitizedText |-> << >>,
     extractInput  |-> << >>,
     domains       |-> SelectSeq(MapSeq(urls, Hostname), LAMBDA d : d # NoDomain),
     allUrls       |-> urls,
     aiInput       |-> << >>]

\* a router that also stops where a provider could not be asked
ThreatShortCircuitOnError(threatResults) ==
    \/ threatResults.isMalicious
    \/ \E k \in DOMAIN threatResults.results : threatResults.results[k].status = "ERROR"

\* a router that always goes on to the AI layer
ThreatShortCircuitNever(threatResults) == FALSE

\* gemini.ts:211: the threat-intelligence layer ends the run
ThreatShortCircuit(threatResults) == threatResults.isMalicious

ScanOutput(verdict, score, reasons, provider, rateLimitRemaining) ==
    [verdict |-> verdict, score |-> score, reasons |-> reasons,
     provider |-> provider, rateLimitRemaining |-> rateLimitRemaining]

\* gemini.ts:212-218
ThreatIntelOutput(threatResults, rateLimit) ==
    ScanOutput("DANGER", Num(95), threatResults.maliciousReasons, "ThreatIntel",
               rateLimit.remaining)

\* gemini.ts:225-231
GeminiOutput(geminiResult, rateLimit) ==
    ScanOutput(geminiResult.verdict, geminiResult.score, geminiResult.reasons,
               "Gemini", rateLimit.remaining)

\* scanOutputSchema, gemini.ts:153-159 (z.number() refuses NaN)
scanOutputSchema(output) ==
    /\ output.verdict \in {"SAFE", "SUSPICIOUS", "DANGER"}
    /\ ~output.score.nan /\ output.score.v >= 0 /\ output.score.v <= 100
    /\ output.provider \in {"ThreatIntel", "Gemini"}

(***************************************************************************)
(* Observers of the limiter.  They read the results of checkRateLimit and  *)
(* the clock, never the store.                                             *)
(***************************************************************************)
\* the window of one identifier: where it began, how many calls it admitted,
\* and how many of these were analyzeText requests
NoWindow == [open |-> FALSE, start |-> 0, admitted |-> 0, analyzeText |-> 0]

\* whether a call at time t falls inside window w
InWindow(w, t) == w.open /\ ~(t > w.start + WINDOW_MS)

\* the window after a call at time t with the given outcome
WindowAfter(w, t, success) ==
    IF ~success THEN w
    ELSE IF InWindow(w, t) THEN [w EXCEPT !.admitted = @ + 1]
    ELSE [open |-> TRUE, start |-> t, admitted |-> 1, analyzeText |-> 0]

\* the admission times that lie in the hour ending at t (t - WINDOW_MS, t]
Recent(log, t) == SelectSeq(log, LAMBDA x : x > t - WINDOW_MS)

\* the window after a request for the given endpoint
WindowAfterRequest(w, t, success, endpoint) ==
    LET after == WindowAfter(w, t, success) IN
    IF success /\ endpoint = "analyzeText"
    THEN [after EXCEPT !.analyzeText = @ + 1] ELSE after

\* before the first call
NoCall == [identifier |-> None, at |-> 0, admittedBefore |-> 0,
           result |-> [success |-> FALSE, remaining |-> 0, reset |-> 0]]

\* the caller whose admission times are logged
Observed == <<"a">>

ObserveCall(identifier, t, result) ==
    LET w == IF identifier \in DOMAIN window THEN window[identifier] ELSE NoWindow IN
    /\ lastCall' = [identifier |-> identifier, at |-> t, result |-> result,
                    admittedBefore |-> IF InWindow(w, t) THEN w.admitted ELSE 0]
    /\ window' = StoreSet(window, identifier, WindowAfter(w, t, result.success))
    /\ admitLog' = IF identifier = Observed /\ result.success
                   THEN Append(Recent(admitLog, t), t)
                   ELSE Recent(admitLog, t)

\* the observer of the quota before any check; day is the calendar day of the
\* latest check, startedToday the model calls started on that day, recent the
\* times of the model calls started in the minute up to the latest of them
NoQuotaLog == [day |-> 0, startedToday |-> 0, recent |-> << >>,
               checked |-> FALSE, checkedAt |-> 0, allowed |-> FALSE,
               startedBefore |-> 0, recentBefore |-> 0]

\* the times of log that lie in the minute ending at t, [t - 60000, t]
RecentAdmissions(log, t) == SelectSeq(log, LAMBDA x : x >= t - MINUTE_MS /\ x <= t)

\* the observer after count model calls were started today at the times stamps
QuotaLogOf(count, stamps) ==
    [NoQuotaLog EXCEPT !.startedToday = count,
                       !.recent = IF stamps = << >> THEN << >>
                                  ELSE RecentAdmissions(stamps, stamps[Len(stamps)])]

\* the observer after a quota check at time t that allowed the call or did not
QuotaLogAfter(q, t, allowed) ==
    LET today  == toDateString(t)
        before == IF q.day = today THEN q.startedToday ELSE 0
        recent == RecentAdmissions(q.recent, t)
    IN  [day |-> today,
         startedToday |-> IF allowed THEN before + 1 ELSE before,
         recent |-> IF allowed THEN Append(recent, t) ELSE recent,
         checked |-> TRUE, checkedAt |-> t, allowed |-> allowed,
         startedBefore |-> before, recentBefore |-> Len(recent)]

(***************************************************************************)
(* The inputs of the model.                                                *)
(***************************************************************************)
\* what a client may put in the three headers
HeaderChoices ==
    { [xForwardedFor |-> Header(<<" ","a",","," ","b">>), xRealIp |-> Header(<<"b">>),
       cfConnectingIp |-> NoHeader],
      [xForwardedFor |-> NoHeader, xRealIp |-> Header(<<"b">>),
       cfConnectingIp |-> Header(<<"a">>)],
      [xForwardedFor |-> NoHeader, xRealIp |-> NoHeader,
       cfConnectingIp |-> Header(<<"a">>)],
      [xForwardedFor |-> NoHeader, xRealIp |-> NoHeader, cfConnectingIp |-> NoHeader] }

\* "hi"
TextPlain == <<"h","i">>
\* " see http://e.co/x "
TextEvil == <<" ","s","e","e"," ">> \o EvilUrl \o <<" ">>
\* "http://a.co/data:image/png;base64,AA= hi"
TextImage == GoodUrl \o <<"/">> \o DataImage \o <<"p","n","g">> \o Base64Tag
             \o <<"A","A","=">> \o <<" ","h","i">>

\* the inputs of analyzeText: the text and the optional urls
AnalyzeInputs ==
    { [text |-> TextPlain, urls |-> << >>],
      [text |-> TextPlain, urls |-> <<EvilUrl>>],
      [text |-> TextEvil,  urls |-> << >>],
      [text |-> TextImage, urls |-> << >>] }

\* the inputs of checkUrls
CheckUrlsInputs ==
    { [text |-> << >>, urls |-> <<GoodUrl>>],
      [text |-> << >>, urls |-> <<GoodUrl, EvilUrl>>] }

Reasons(n) == [k \in 1..n |-> "reason"]

JsonObject(score, verdict, reasons) ==
    [type |-> "object", score |-> score, verdict |-> verdict,
     reasons |-> reasons, summary |-> JsonText]
NoDoc == [type |-> "none", score |-> JsonMissing, verdict |-> "",
          reasons |-> [isArray |-> FALSE, items |-> << >>], summary |-> JsonMissing]
ReasonArray(n) == [isArray |-> TRUE, items |-> Reasons(n)]

GeminiReply(kind, text, doc) == [kind |-> kind, text |-> text, doc |-> doc]

\* what generateContent gives the scan router
GeminiReplies ==
    { GeminiReply("throw", << >>, NoDoc),
      GeminiReply("text", <<"prose", "{json}">>, JsonObject(JsonNumber(10), "SAFE", ReasonArray(1))),
      GeminiReply("text", <<"fence_json", "ws", "{json}", "ws", "fence">>,
                  JsonObject(JsonNumber(85), "SAFE", ReasonArray(6))),
      GeminiReply("text", <<"{json}">>, JsonObject(JsonNumber(10), "DANGER", ReasonArray(0))),
      GeminiReply("text", <<"{json}">>, JsonObject(JsonMissing, "SAFE", ReasonArray(1))) }

\* the longest list of URLs a text or a client brings
MaxUrls == 4

\* "http://a.co", "http://ax.co", "http://axx.co", ...: URLs no provider knows
SafeUrl(i) == Http \o [k \in 1..i |-> IF k = 1 THEN "a" ELSE "x"] \o <<".","c","o">>

\* the lists of up to MaxUrls different URLs, with EvilUrl at one place or nowhere
UrlLists ==
    { [i \in 1..n |-> IF i = e THEN EvilUrl ELSE SafeUrl(i)] :
        n \in 0..MaxUrls, e \in 0..MaxUrls }

\* what a client adds to the text in input.urls
ClientUrlLists == { << >>, <<EvilUrl>>, <<SafeUrl(1)>> }

\* "hi " and the URLs of the list, a blank after each
RECURSIVE TextOf(_)
TextOf(urls) ==
    IF urls = << >> THEN <<"h","i"," ">>
    ELSE TextOf(SubSeq(urls, 1, Len(urls) - 1)) \o urls[Len(urls)] \o <<" ">>

\* inputs of analyzeText with many URLs
LongAnalyzeInputs ==
    { [text |-> TextOf(l), urls |-> c] : l \in UrlLists, c \in ClientUrlLists }

\* inputs of checkUrls with many URLs
LongCheckUrlsInputs ==
    { [text |-> << >>, urls |-> l] : l \in UrlLists \ {<< >>} }

\* AnalyzeTextPrepare and CheckUrlsPrepare of each input, worked out once
Prepared ==
    [endpoint \in {"analyzeText", "checkUrls"} |->
        IF endpoint = "analyzeText"
        THEN [input \in AnalyzeInputs \cup LongAnalyzeInputs |->
                 AnalyzeTextPrepare(input.text, input.urls)]
        ELSE [input \in CheckUrlsInputs \cup LongCheckUrlsInputs |->
                 CheckUrlsPrepare(input.urls)]]

(***************************************************************************)
(* The requests.                                                           *)
(***************************************************************************)
Slots == {1, 2}

\* the scan router serves one request after the other
SerialSlots == {1}


NoRateLimit == [success |-> FALSE, remaining |-> 0, reset |-> 0]
NoThreat == [isMalicious |-> FALSE, results |-> << >>, maliciousReasons |-> << >>]
NoGeminiResult == GeminiAnalysisResult(Num(0), "", << >>, "", FALSE)
NoReply == GeminiReply("none", << >>, NoDoc)
NoAnalysis == [pc |-> "idle", admitted |-> FALSE, reply |-> NoReply,
               result |-> NoGeminiResult]
NoOutput == ScanOutput("", Num(0), << >>, "", 0)
NoExtraction == [pc |-> "idle", text |-> << >>, urls |-> << >>, domains |-> << >>]

Idle ==
    [pc |-> "idle", endpoint |-> "", text |-> << >>, urls |-> << >>,
     rateLimit |-> NoRateLimit,
     sanitizedText |-> << >>, extractInput |-> << >>, domains |-> << >>,
     allUrls |-> << >>, aiInput |-> << >>,
     fetching |-> FALSE, timer |-> 0, notOk |-> {}, submitted |-> << >>,
     acc |-> NoThreatResults, index |-> 0, matchedDomains |-> << >>,
     threat |-> NoThreat, gemini |-> NoGeminiResult, output |-> NoOutput,
     outcome |-> "",
     log |-> << >>, fetches |-> 0, modelCalls |-> 0, quotaTaken |-> 0]

\* fetchWithTimeout, threat-apis.ts:34-41: the timer is set for API_TIMEOUT
\* and the fetch begins
FetchStarted(rq) ==
    [rq EXCEPT !.fetching = TRUE, !.timer = API_TIMEOUT, !.fetches = @ + 1]

\* the provider the request is calling
Calling(rq) == IF rq.pc = "safeBrowsing" THEN "Google Safe Browsing" ELSE "urlscan.io"

\* notOk after a fetch has ended: the providers of which some fetch of the
\* run was not answered with response.ok
NotOkAfter(rq, outcome) ==
    IF outcome = "ok" THEN rq.notOk ELSE rq.notOk \cup {Calling(rq)}

\* a fetchWithTimeout that clears the timer only when the fetch has answered
FetchEndedLeaking(rq, outcome) ==
    [rq EXCEPT !.fetching = FALSE,
               !.timer = IF outcome \in {"ok", "http_error"} THEN 0 ELSE @,
               !.notOk = NotOkAfter(rq, outcome)]

\* fetchWithTimeout, threat-apis.ts:42-48: the fetch has answered or thrown,
\* and clearTimeout has run in the try or in the catch
FetchEnded(rq, outcome) ==
    [rq EXCEPT !.fetching = FALSE, !.timer = 0, !.notOk = NotOkAfter(rq, outcome)]

(***************************************************************************)
(* The limiter on its own: calls of checkRateLimit, the periodic cleanup   *)
(* and the clock.                                                          *)
(***************************************************************************)
\* the server starts at noon of day 0
StartTime == DAY_MS \div 2

FreshQuota ==
    /\ dailyCallCount = 0
    /\ lastResetDate = toDateString(StartTime)
    /\ minuteCallTimestamps = << >>
    /\ quotaLog = NoQuotaLog

InitLimiter ==
    /\ now = StartTime
    /\ inMemoryStore = << >>
    /\ lastCall = NoCall
    /\ window = << >>
    /\ admitLog = << >>
    /\ clientWindow = NoWindow
    /\ urlscanKey = FALSE
    /\ FreshQuota
    /\ req = [r \in Slots |-> Idle]
    /\ started = 0
    /\ geminiCall = NoAnalysis
    /\ extraction = NoExtraction

routerVars == <<clientWindow, urlscanKey, dailyCallCount, lastResetDate,
                minuteCallTimestamps, req, started, geminiCall, quotaLog, extraction>>

\* the clock advances
Tick ==
    /\ now + TickMs <= StartTime + MaxTicks * TickMs
    /\ now' = now + TickMs
    /\ admitLog' = Recent(admitLog, now')
    /\ UNCHANGED <<inMemoryStore, lastCall, window>>
    /\ UNCHANGED routerVars

\* one call checkRateLimit(identifier)
CallCheckRateLimit(identifier) ==
    LET r == checkRateLimit(inMemoryStore, identifier, now) IN
    /\ inMemoryStore' = r.store
    /\ ObserveCall(identifier, now, r.result)
    /\ UNCHANGED now
    /\ UNCHANGED routerVars

\* the setInterval callback (rate-limit.ts:99-101)
Cleanup ==
    /\ inMemoryStore' = cleanupInMemoryStore(inMemoryStore, now)
    /\ UNCHANGED <<now, lastCall, window, admitLog>>
    /\ UNCHANGED routerVars

NextLimiter ==
    \/ Tick
    \/ \E identifier \in Identifiers : CallCheckRateLimit(identifier)
    \/ Cleanup

SpecLimiter == InitLimiter /\ [][NextLimiter]_vars

(***************************************************************************)
(* The scan router at work.  A request runs from one await to the next in  *)
(* one step: the rate-limit call (gemini.ts:188, 245), each HTTP call of   *)
(* the threat-intelligence layer (threat-apis.ts:88, 156) and the model    *)
(* call (part_002:254).                                                    *)
(***************************************************************************)
\* All requests of the model come from one client, which chooses the headers
\* of each of them.
\*
\* What the server may have done before the model takes over:
\*   fresh:  nothing
\*   loaded: the client has had nine checkUrls requests admitted at StartTime,
\*           all under identifier "a"; DAILY_LIMIT - 1 model calls were made
\*           earlier today for other callers, the last of them two minutes
\*           ago, and the rate-limit records of those requests have expired
\*           and were cleaned up
InitRouter ==
    /\ now = StartTime
    /\ lastCall = NoCall
    /\ admitLog = << >>
    /\ urlscanKey \in BOOLEAN
    /\ req = [r \in Slots |-> Idle]
    /\ started = 0
    /\ geminiCall = NoAnalysis
    /\ extraction = NoExtraction
    /\ lastResetDate = toDateString(StartTime)
    /\ \/ /\ inMemoryStore = << >>
          /\ window = << >>
          /\ clientWindow = NoWindow
          /\ dailyCallCount = 0
          /\ minuteCallTimestamps = << >>
       \/ /\ inMemoryStore = (<<"a">> :> [count |-> MAX_REQUESTS_PER_WINDOW - 1,
                                          resetAt |-> StartTime + WINDOW_MS])
          /\ window = (<<"a">> :> [open |-> TRUE, start |-> StartTime,
                                   admitted |-> MAX_REQUESTS_PER_WINDOW - 1,
                                   analyzeText |-> 0])
          /\ clientWindow = [open |-> TRUE, start |-> StartTime,
                             admitted |-> MAX_REQUESTS_PER_WINDOW - 1,
                             analyzeText |-> 0]
          /\ dailyCallCount = DAILY_LIMIT - 1
          /\ minuteCallTimestamps = <<StartTime - 2 * MINUTE_MS>>
    /\ quotaLog = QuotaLogOf(dailyCallCount, minuteCallTimestamps)

Quota == [dailyCallCount |-> dailyCallCount, lastResetDate |-> lastResetDate,
          minuteCallTimestamps |-> minuteCallTimestamps]

\* a quota check whose assignments to the counters are lost
SetQuotaLost(q) == UNCHANGED quotaVars

\* the assignments of checkAndUpdateQuota (part_002:127-128, 145, 153-154)
SetQuota(q) ==
    /\ dailyCallCount' = q.dailyCallCount
    /\ lastResetDate' = q.lastResetDate
    /\ minuteCallTimestamps' = q.minuteCallTimestamps

\* a request arrives: getClientIp and the body of checkRateLimit
\* (gemini.ts:187-188, 244-245)
Receive(r, endpoint, headers, input) ==
    LET clientIp == getClientIp(headers)
        key == RateLimitKey(endpoint, clientIp)
        rl == checkRateLimit(inMemoryStore, key, now)
        w  == IF clientIp \in DOMAIN window THEN window[clientIp] ELSE NoWindow
    IN
    /\ req[r].pc = "idle"
    /\ started < MaxRequests
    /\ started' = started + 1
    /\ inMemoryStore' = rl.store
    /\ window' = StoreSet(window, clientIp,
                          WindowAfterRequest(w, now, rl.result.success, endpoint))
    /\ clientWindow' = WindowAfterRequest(clientWindow, now, rl.result.success, endpoint)
    /\ req' = [req EXCEPT ![r] =
                 [Idle EXCEPT !.pc = "rateLimit", !.endpoint = endpoint,
                              !.text = input.text, !.urls = input.urls,
                              !.rateLimit = rl.result, !.log = <<"rateLimit">>]]
    /\ UNCHANGED <<now, urlscanKey, lastCall, admitLog, geminiCall, quotaLog, extraction>>
    /\ UNCHANGED quotaVars

\* the request with the run ended by the procedure's return or throw
Ended(rq, outcome) ==
    [rq EXCEPT !.pc = "done", !.outcome = outcome, !.fetching = FALSE,
               !.log = Append(@, "respond")]

\* gemini.ts:190-208 and 247-262: the refusal, or sanitizing, extraction and
\* the start of runThreatIntelligenceChecks with checkGoogleSafeBrowsing
\* (threat-apis.ts:59-92)
Admit(r) ==
    LET rq == req[r]
        prep == Prepared[rq.endpoint][[text |-> rq.text, urls |-> rq.urls]]
        stages == IF rq.endpoint = "analyzeText"
                  THEN <<"sanitize", "extract", "threatIntel">>
                  ELSE <<"threatIntel">>
        fetch == Len(prep.allUrls) > 0
        prepared == [rq EXCEPT !.pc = "safeBrowsing",
                               !.sanitizedText = prep.sanitizedText,
                               !.extractInput = prep.extractInput,
                               !.domains = prep.domains,
                               !.allUrls = prep.allUrls,
                               !.aiInput = prep.aiInput,
                               !.log = @ \o stages]
    IN
    /\ rq.pc = "rateLimit"
    /\ req' = [req EXCEPT ![r] =
                 IF RateLimitRefused(rq.rateLimit)
                 THEN [rq EXCEPT !.pc = "done", !.outcome = "TOO_MANY_REQUESTS"]
                 ELSE IF fetch THEN FetchStarted([prepared EXCEPT
                                 !.submitted = UrlsToCheck(prep.allUrls)])
                 ELSE prepared]
    /\ UNCHANGED <<now, inMemoryStore, lastCall, window, admitLog, clientWindow,
                   urlscanKey, started, geminiCall, quotaLog, extraction>>
    /\ UNCHANGED quotaVars

\* runThreatIntelligenceChecks has returned threatResults: the rest of the
\* procedure up to its next await (gemini.ts:211-223, 264-269, with
\* part_002:222-254)
AfterThreatIntel(r, rq0, threatResults) ==
    LET rq == [rq0 EXCEPT !.threat = threatResults, !.fetching = FALSE,
                          !.log = Append(@, "threatIntelDone")]
        quotaCheck == checkAndUpdateQuota(Quota, now)
    IN
    IF rq.endpoint = "checkUrls"
    THEN /\ req' = [req EXCEPT ![r] = Ended(rq, "ok")]
         /\ UNCHANGED quotaVars
    ELSE IF ThreatShortCircuit(threatResults)
    THEN /\ req' = [req EXCEPT ![r] =
                      Ended([rq EXCEPT !.output = ThreatIntelOutput(threatResults, rq.rateLimit)],
                            "ok")]
         /\ UNCHANGED quotaVars
    ELSE /\ SetQuota(quotaCheck.q)
         /\ req' = [req EXCEPT ![r] =
                      IF ~quotaCheck.allowed
                      THEN LET g == GeminiQuotaExceeded(quotaCheck.reason) IN
                           Ended([rq EXCEPT !.gemini = g,
                                            !.output = GeminiOutput(g, rq.rateLimit),
                                            !.log = @ \o <<"ai", "aiDone">>],
                                 "ok")
                      ELSE [rq EXCEPT !.pc = "gemini", !.modelCalls = @ + 1,
                                      !.quotaTaken = @ + 1,
                                      !.log = Append(@, "ai")]]

\* the Safe Browsing call has ended, or was not made (threat-apis.ts:220-232)
SafeBrowsingDone(r, outcome) ==
    LET rq == req[r]
        googleResult == IF rq.fetching
                        THEN GoogleSafeBrowsingResult(rq.submitted, outcome)
                        ELSE GoogleSafeBrowsingEmpty
        ended == IF rq.fetching THEN FetchEnded(rq, outcome) ELSE rq
        acc == processResult(NoThreatResults, googleResult)
    IN
    /\ rq.pc = "safeBrowsing"
    /\ rq.fetching \/ outcome = "ok"
    /\ IF UrlscanQueried(googleResult, urlscanKey, rq.domains)
       THEN /\ req' = [req EXCEPT ![r] =
                         FetchStarted([ended EXCEPT !.pc = "urlscan", !.acc = acc,
                                                    !.index = 1,
                                                    !.matchedDomains = << >>])]
            /\ UNCHANGED quotaVars
       ELSE AfterThreatIntel(r, [ended EXCEPT !.acc = acc],
                             ThreatResults(acc, googleResult.status = "MALICIOUS"))
    /\ UNCHANGED <<now, inMemoryStore, lastCall, window, admitLog, clientWindow,
                   urlscanKey, started, geminiCall, quotaLog, extraction>>

\* one urlscan.io call of the loop has ended (threat-apis.ts:150-190, 230-238)
UrlscanDone(r, outcome) ==
    LET rq == req[r]
        toScan == DomainsToScan(rq.domains)
        matched == UrlscanMatched(rq.matchedDomains, toScan[rq.index], outcome)
        ended == FetchEnded(rq, outcome)
        finish(result) ==
            LET acc == processResult(rq.acc, result) IN
            AfterThreatIntel(r, [ended EXCEPT !.acc = acc, !.matchedDomains = matched],
                             ThreatResults(acc, FALSE))
    IN
    /\ rq.pc = "urlscan"
    /\ IF outcome \in {"timeout", "network"}
       THEN finish(UrlscanThrown(outcome))
       ELSE IF rq.index < Len(toScan)
       THEN /\ req' = [req EXCEPT ![r] =
                         FetchStarted([ended EXCEPT !.index = @ + 1,
                                                    !.matchedDomains = matched])]
            /\ UNCHANGED quotaVars
       ELSE finish(UrlscanFinished(matched))
    /\ UNCHANGED <<now, inMemoryStore, lastCall, window, admitLog, clientWindow,
                   urlscanKey, started, geminiCall, quotaLog, extraction>>

\* generateContent has ended (part_002:254-301, gemini.ts:223-231)
GeminiDone(r, reply) ==
    LET rq == req[r]
        g == GeminiResult(reply)
    IN
    /\ rq.pc = "gemini"
    /\ req' = [req EXCEPT ![r] =
                 Ended([rq EXCEPT !.gemini = g, !.output = GeminiOutput(g, rq.rateLimit),
                                  !.log = Append(@, "aiDone")],
                       "ok")]
    /\ UNCHANGED <<now, inMemoryStore, lastCall, window, admitLog, clientWindow,
                   urlscanKey, started, geminiCall, quotaLog, extraction>>
    /\ UNCHANGED quotaVars

\* the answer has gone out
Deliver(r) ==
    /\ req[r].pc = "done"
    /\ req' = [req EXCEPT ![r] = Idle]
    /\ UNCHANGED <<now, inMemoryStore, lastCall, window, admitLog, clientWindow,
                   urlscanKey, started, geminiCall, quotaLog, extraction>>
    /\ UNCHANGED quotaVars

\* an hour and a moment pass: every rate-limit window open before has expired
HourPasses ==
    /\ now + WINDOW_MS + 1 <= StartTime + MaxTicks * TickMs
    /\ now' = now + WINDOW_MS + 1
    /\ UNCHANGED <<inMemoryStore, lastCall, window, admitLog>>
    /\ UNCHANGED routerVars

Next ==
    \/ HourPasses
    \/ Cleanup
    \/ \E r \in SerialSlots, headers \in HeaderChoices :
          \/ \E input \in AnalyzeInputs : Receive(r, "analyzeText", headers, input)
          \/ \E input \in CheckUrlsInputs : Receive(r, "checkUrls", headers, input)
    \/ \E r \in SerialSlots : Admit(r)
    \/ \E r \in SerialSlots, outcome \in FetchOutcomes : SafeBrowsingDone(r, outcome)
    \/ \E r \in SerialSlots, outcome \in FetchOutcomes : UrlscanDone(r, outcome)
    \/ \E r \in SerialSlots, reply \in GeminiReplies : GeminiDone(r, reply)
    \/ \E r \in SerialSlots : Deliver(r)

Spec == InitRouter /\ [][Next]_vars

(***************************************************************************)
(* analyzeWithGemini on its own (part_002:218-302): calls of it with every *)
(* reply of ModelReplies.                                                  *)
(***************************************************************************)
\* the scores the model reports range from -ScoreMargin to 100 + ScoreMargin
ScoreMargin == 3

\* analyzeWithGemini is called at most this many times
MaxCalls == 2

Scores == (0 - ScoreMargin)..(100 + ScoreMargin)

\* what generateContent gives: a failure, text that is no JSON, JSON that is
\* no object, and objects with every score, plain or fenced
ModelReplies ==
    { GeminiReply("throw", << >>, NoDoc),
      GeminiReply("text", <<"prose">>, NoDoc),
      GeminiReply("text", <<"fence", "{json}">>, JsonObject(JsonNumber(10), "SAFE", ReasonArray(1))),
      GeminiReply("text", <<"{json}">>, [NoDoc EXCEPT !.type = "null"]),
      GeminiReply("text", <<"{json}">>, [NoDoc EXCEPT !.type = "number"]),
      GeminiReply("text", <<"fence", "prose", "fence">>, NoDoc),
      GeminiReply("text", <<"fence_json", "ws", "{json}", "ws", "fence">>,
                  [JsonObject(JsonNumber(10), "SAFE", ReasonArray(0))
                      EXCEPT !.reasons.items = <<"r1", "r2", "r3", "r4", "r5", "r6">>]),
      GeminiReply("text", <<"{json}">>,
                  [JsonObject(JsonNumber(10), "SAFE", ReasonArray(0))
                      EXCEPT !.reasons = [isArray |-> FALSE, items |-> << >>]]) }
    \cup
    { GeminiReply("text", layout, JsonObject(score, verdict, ReasonArray(1))) :
        layout \in { <<"{json}">>, <<"prose", "fence_json", "{json}", "ws", "fence">> },
        verdict \in {"SAFE", "DANGER"},
        score \in {JsonNumber(n) : n \in Scores}
                  \cup {JsonMissing, JsonNull, JsonTrue, JsonText, JsonNumeral(80)} }

\* the server is new, or is one model call short of the daily limit, or is one
\* model call short of the limit of the minute
InitGemini ==
    /\ now = StartTime
    /\ inMemoryStore = << >>
    /\ lastCall = NoCall
    /\ window = << >>
    /\ admitLog = << >>
    /\ clientWindow = NoWindow
    /\ urlscanKey = FALSE
    /\ req = [r \in Slots |-> Idle]
    /\ started = 0
    /\ geminiCall = NoAnalysis
    /\ extraction = NoExtraction
    /\ lastResetDate = toDateString(StartTime)
    /\ \/ /\ dailyCallCount = 0
          /\ minuteCallTimestamps = << >>
       \/ /\ dailyCallCount = DAILY_LIMIT - 1
          /\ minuteCallTimestamps = <<StartTime - 2 * MINUTE_MS>>
       \/ /\ dailyCallCount = MINUTE_LIMIT - 1
          /\ minuteCallTimestamps = [k \in 1..(MINUTE_LIMIT - 1) |-> StartTime]
    /\ quotaLog = QuotaLogOf(dailyCallCount, minuteCallTimestamps)

\* analyzeWithGemini up to its await (part_002:221-254)
GeminiCall ==
    LET quotaCheck == checkAndUpdateQuota(Quota, now) IN
    /\ geminiCall.pc # "calling"
    /\ started < MaxCalls
    /\ started' = started + 1
    /\ SetQuota(quotaCheck.q)
    /\ geminiCall' = IF quotaCheck.allowed
                     THEN [NoAnalysis EXCEPT !.pc = "calling", !.admitted = TRUE]
                     ELSE [NoAnalysis EXCEPT !.pc = "returned",
                                             !.result = GeminiQuotaExceeded(quotaCheck.reason)]
    /\ quotaLog' = QuotaLogAfter(quotaLog, now, quotaCheck.allowed)
    /\ UNCHANGED <<now, inMemoryStore, lastCall, window, admitLog, clientWindow,
                   urlscanKey, req, extraction>>

\* generateContent has ended (part_002:254-301)
GeminiReturn(reply) ==
    /\ geminiCall.pc = "calling"
    /\ geminiCall' = [geminiCall EXCEPT !.pc = "returned", !.reply = reply,
                                        !.result = GeminiResult(reply)]
    /\ UNCHANGED <<now, inMemoryStore, lastCall, window, admitLog, clientWindow,
                   urlscanKey, req, started, quotaLog, extraction>>
    /\ UNCHANGED quotaVars

NextGemini ==
    \/ GeminiCall
    \/ \E reply \in ModelReplies : GeminiReturn(reply)

SpecGemini == InitGemini /\ [][NextGemini]_vars

(***************************************************************************)
(* analyzeWithGemini over time: calls of it, with the clock advancing by   *)
(* half minutes and by days between and during the calls.                  *)
(***************************************************************************)
\* the clock advances by at most this many half minutes a day
MaxHalfMinutes == 3

\* the clock advances by at most this many days
MaxDays == 1

HalfMinute == MINUTE_MS \div 2

\* half a minute before the first midnight
DayEnd == DAY_MS - HalfMinute

\* It is noon or half a minute before midnight; the server is new, or it has
\* started DAILY_LIMIT - 1 or DAILY_LIMIT model calls today, the last of them
\* two minutes ago, or MINUTE_LIMIT - 1 model calls just now
InitQuota ==
    /\ now \in {StartTime, DayEnd}
    /\ inMemoryStore = << >>
    /\ lastCall = NoCall
    /\ window = << >>
    /\ admitLog = << >>
    /\ clientWindow = NoWindow
    /\ urlscanKey = FALSE
    /\ req = [r \in Slots |-> Idle]
    /\ started = 0
    /\ geminiCall = NoAnalysis
    /\ extraction = NoExtraction
    /\ lastResetDate = toDateString(StartTime)
    /\ \/ /\ dailyCallCount = 0
          /\ minuteCallTimestamps = << >>
       \/ /\ dailyCallCount \in {DAILY_LIMIT - 1, DAILY_LIMIT}
          /\ minuteCallTimestamps = <<now - 2 * MINUTE_MS>>
       \/ /\ dailyCallCount = MINUTE_LIMIT - 1
          /\ minuteCallTimestamps = [k \in 1..(MINUTE_LIMIT - 1) |-> now]
    /\ quotaLog = QuotaLogOf(dailyCallCount, minuteCallTimestamps)

\* the time of day since noon or since half a minute before midnight,
\* whichever came last
SinceStart(t) ==
    LET phase == (t - StartTime) % DAY_MS IN
    IF phase >= DayEnd - StartTime THEN phase - (DayEnd - StartTime) ELSE phase

\* half a minute passes
WaitHalfMinute ==
    /\ SinceStart(now) \div HalfMinute < MaxHalfMinutes
    /\ now' = now + HalfMinute
    /\ UNCHANGED <<inMemoryStore, lastCall, window, admitLog>>
    /\ UNCHANGED routerVars

\* a day passes
WaitDay ==
    /\ (now - StartTime) \div DAY_MS < MaxDays
    /\ now' = now + DAY_MS
    /\ UNCHANGED <<inMemoryStore, lastCall, window, admitLog>>
    /\ UNCHANGED routerVars

NextQuota ==
    \/ GeminiCall
    \/ \E reply \in GeminiReplies : GeminiReturn(reply)
    \/ WaitHalfMinute
    \/ WaitDay

SpecQuota == InitQuota /\ [][NextQuota]_vars

(***************************************************************************)
(* The threat-intelligence layer under long lists: requests of one client  *)
(* to a new server, with up to MaxUrls URLs in the text and in input.urls. *)
(***************************************************************************)
InitThreat ==
    /\ now = StartTime
    /\ inMemoryStore = << >>
    /\ lastCall = NoCall
    /\ window = << >>
    /\ admitLog = << >>
    /\ clientWindow = NoWindow
    /\ urlscanKey \in BOOLEAN
    /\ FreshQuota
    /\ req = [r \in Slots |-> Idle]
    /\ started = 0
    /\ geminiCall = NoAnalysis
    /\ extraction = NoExtraction

\* the client sends no header of the three
NoHeaders == [xForwardedFor |-> NoHeader, xRealIp |-> NoHeader, cfConnectingIp |-> NoHeader]

NextThreat ==
    \/ \E r \in SerialSlots, input \in LongAnalyzeInputs :
          Receive(r, "analyzeText", NoHeaders, input)
    \/ \E r \in SerialSlots, input \in LongCheckUrlsInputs :
          Receive(r, "checkUrls", NoHeaders, input)
    \/ \E r \in SerialSlots : Admit(r)
    \/ \E r \in SerialSlots, outcome \in FetchOutcomes : SafeBrowsingDone(r, outcome)
    \/ \E r \in SerialSlots, outcome \in FetchOutcomes : UrlscanDone(r, outcome)
    \/ \E r \in SerialSlots, reply \in GeminiReplies : GeminiDone(r, reply)
    \/ \E r \in SerialSlots : Deliver(r)

SpecThreat == InitThreat /\ [][NextThreat]_vars

\* Every fetch of the layer ends: it answers, fails, or is aborted by its
\* timer after API_TIMEOUT (threat-apis.ts:34-35).
FairSpecThreat ==
    /\ SpecThreat
    /\ WF_vars(\E r \in SerialSlots, outcome \in FetchOutcomes : SafeBrowsingDone(r, outcome))
    /\ WF_vars(\E r \in SerialSlots, outcome \in FetchOutcomes : UrlscanDone(r, outcome))

(***************************************************************************)
(* The extractor on its own (part_002:17-69): calls of                     *)
(* extractUrlsAndDomains on texts made of addresses in their several       *)
(* spellings.                                                              *)
(***************************************************************************)
\* the most addresses in one text
MaxTokens == 3

\* "www.a.co", "http://www.a.co", "https://www.a.co", "http://a.co"
ExtractTokens ==
    LET host == <<"a",".","c","o">> IN
    { Www \o host, Http \o Www \o host, Https \o Www \o host, Http \o host }

\* the tokens with a blank between them
RECURSIVE JoinTokens(_)
JoinTokens(tokens) ==
    IF Len(tokens) = 1 THEN tokens[1]
    ELSE JoinTokens(SubSeq(tokens, 1, Len(tokens) - 1)) \o <<" ">> \o tokens[Len(tokens)]

ExtractTexts ==
    { JoinTokens(tokens) :
        tokens \in UNION { [1..n -> ExtractTokens] : n \in 1..MaxTokens } }

InitExtract ==
    /\ now = StartTime
    /\ inMemoryStore = << >>
    /\ lastCall = NoCall
    /\ window = << >>
    /\ admitLog = << >>
    /\ clientWindow = NoWindow
    /\ urlscanKey = FALSE
    /\ FreshQuota
    /\ req = [r \in Slots |-> Idle]
    /\ started = 0
    /\ geminiCall = NoAnalysis
    /\ extraction = NoExtraction

\* extractUrlsAndDomains(text) is called
ExtractCall(text) ==
    /\ extraction.pc \in {"idle", "returned"}
    /\ extraction' = [pc |-> "called", text |-> text, urls |-> << >>, domains |-> << >>]
    /\ UNCHANGED <<now, inMemoryStore, lastCall, window, admitLog, clientWindow,
                   urlscanKey, req, started, geminiCall, quotaLog>>
    /\ UNCHANGED quotaVars

\* and returns (part_002:59-69)
ExtractReturn ==
    LET extracted == extractUrlsAndDomains(extraction.text) IN
    /\ extraction.pc = "called"
    /\ extraction' = [extraction EXCEPT !.pc = "returned",
                                        !.urls = extracted.urls,
                                        !.domains = extracted.domains]
    /\ UNCHANGED <<now, inMemoryStore, lastCall, window, admitLog, clientWindow,
                   urlscanKey, req, started, geminiCall, quotaLog>>
    /\ UNCHANGED quotaVars

NextExtract ==
    \/ \E text \in ExtractTexts : ExtractCall(text)
    \/ ExtractReturn

SpecExtract == InitExtract /\ [][NextExtract]_vars

(***************************************************************************)
(* Properties of the limiter                                               *)
(***************************************************************************)
\* C1: in the in-memory limiter every identifier has at most 10 calls admitted
\* in one window (the window begins at the first admitted call at t0 and lasts
\* until now > t0 + 1 hour), and a call made inside a window that has already
\* admitted 10 calls returns success = false.
C1_AtMostTenPerWindow ==
    /\ \A i \in DOMAIN window : window[i].admitted <= MAX_REQUESTS_PER_WINDOW
    /\ lastCall.admittedBefore >= MAX_REQUESTS_PER_WINDOW => ~lastCall.result.success

\* C1 witness: an eleventh call inside a full window has been refused
C1_EleventhRefused ==
    /\ lastCall.identifier \in DOMAIN window
    /\ lastCall.admittedBefore = MAX_REQUESTS_PER_WINDOW
    /\ ~lastCall.result.success
    /\ lastCall.at > window[lastCall.identifier].start

\* C2: the limiter is a sliding window: in every interval of one hour, wherever
\* it starts, at most 10 calls of one caller are admitted (stated for the
\* intervals (t - 1 hour, t] that end at the current time t).
C2_SlidingWindow == Len(admitLog) <= MAX_REQUESTS_PER_WINDOW

(***************************************************************************)
(* Properties of the scan router                                           *)
(***************************************************************************)
\* the requests that have gone through the rate-limit check
Checked(r) == req[r].pc \notin {"idle", "rateLimit"}

\* the requests whose procedure has returned or thrown
Done(r) == req[r].pc = "done"

\* some threat-intelligence source has flagged the content
Flagged(rq) == \E k \in DOMAIN rq.threat.results : rq.threat.results[k].status = "MALICIOUS"

\* runThreatIntelligenceChecks has returned to the request
ThreatKnown(rq) == \E k \in DOMAIN rq.log : rq.log[k] = "threatIntelDone"

IsPrefix(p, q) == Len(p) <= Len(q) /\ SubSeq(q, 1, Len(p)) = p

\* C3: a request that checkRateLimit refuses fails with TOO_MANY_REQUESTS and
\* nothing of the pipeline runs for it: nothing is sanitized or extracted, no
\* threat-intelligence call and no model call is made, no quota is taken.
C3_RefusedRunsNothing ==
    \A r \in Slots :
        (Checked(r) /\ ~req[r].rateLimit.success) =>
            /\ req[r].pc = "done"
            /\ req[r].outcome = "TOO_MANY_REQUESTS"
            /\ req[r].log = <<"rateLimit">>
            /\ req[r].sanitizedText = << >> /\ req[r].extractInput = << >>
            /\ req[r].allUrls = << >> /\ req[r].domains = << >>
            /\ req[r].threat = NoThreat /\ req[r].output = NoOutput
            /\ req[r].fetches = 0
            /\ req[r].modelCalls = 0
            /\ req[r].quotaTaken = 0

\* C3 witness: an analyzeText request with a text to scan has been refused
C3_RefusedAnalyzeText ==
    \E r \in Slots :
        /\ req[r].endpoint = "analyzeText" /\ req[r].text = TextEvil
        /\ req[r].outcome = "TOO_MANY_REQUESTS"

\* C4: analyzeText and checkUrls draw on one counter for each identifier: in
\* one window an identifier has at most 10 requests admitted, analyzeText and
\* checkUrls taken together, and a request of either procedure that arrives
\* after the tenth is refused.
C4_SharedCounter ==
    /\ \A i \in DOMAIN window :
          /\ window[i].admitted <= MAX_REQUESTS_PER_WINDOW
          /\ window[i].analyzeText <= window[i].admitted
    /\ \A r \in Slots :
          (Checked(r) /\ req[r].rateLimit.success) =>
              req[r].rateLimit.remaining <= MAX_REQUESTS_PER_WINDOW - 1

\* C4 witness: after nine checkUrls requests and one analyzeText request of
\* identifier a were admitted in one window, its checkUrls request is refused
C4_CheckUrlsRefusedAfterAnalyzeText ==
    /\ <<"a">> \in DOMAIN window
    /\ window[<<"a">>].admitted = MAX_REQUESTS_PER_WINDOW
    /\ window[<<"a">>].analyzeText = 1
    /\ \E r \in Slots :
          /\ req[r].endpoint = "checkUrls" /\ Done(r)
          /\ req[r].outcome = "TOO_MANY_REQUESTS"

\* C5: a single client has at most 10 requests admitted within one window,
\* whatever it puts in x-forwarded-for, x-real-ip and cf-connecting-ip.
C5_ClientAtMostTen == clientWindow.admitted <= MAX_REQUESTS_PER_WINDOW

\* C6: when a threat-intelligence source has flagged the content, analyzeText
\* returns at once with DANGER, 95, provider ThreatIntel and the collected
\* maliciousReasons; the model is not called and no quota is taken.
C6_ThreatShortCircuits ==
    \A r \in Slots :
        (req[r].endpoint = "analyzeText" /\ ThreatKnown(req[r]) /\ Flagged(req[r])) =>
            /\ Done(r) /\ req[r].outcome = "ok"
            /\ req[r].output.verdict = "DANGER"
            /\ req[r].output.score = Num(95)
            /\ req[r].output.provider = "ThreatIntel"
            /\ req[r].output.reasons = req[r].threat.maliciousReasons
            /\ Len(req[r].output.reasons) > 0
            /\ req[r].modelCalls = 0
            /\ req[r].quotaTaken = 0
            /\ req[r].gemini = NoGeminiResult

\* C6 witness: urlscan.io, asked after Safe Browsing had failed, flagged the
\* domain and the run ended with the ThreatIntel answer
C6_UrlscanFlagged ==
    \E r \in Slots :
        /\ req[r].endpoint = "analyzeText" /\ Done(r)
        /\ Len(req[r].threat.results) = 2
        /\ req[r].threat.results[1].status = "ERROR"
        /\ req[r].threat.results[2].status = "MALICIOUS"
        /\ req[r].output.provider = "ThreatIntel"

\* what sanitizeEmailContent makes of each text that comes in
SanitizerOutput ==
    [text \in {input.text : input \in AnalyzeInputs} |-> sanitizeEmailContent(text)]

\* an analyzeText run that was admitted, found no threat and has returned
CleanRun(r) ==
    /\ req[r].endpoint = "analyzeText" /\ Done(r) /\ req[r].rateLimit.success
    /\ ~Flagged(req[r])

\* the model was called once on the sanitized text and the answer carries the
\* verdict and the score analyzeWithGemini made of the reply
AnsweredByModel(rq) ==
    /\ rq.modelCalls = 1
    /\ ~rq.gemini.quotaExceeded
    /\ rq.aiInput = SanitizerOutput[rq.text]
    /\ rq.output.provider = "Gemini"
    /\ rq.output.verdict = rq.gemini.verdict
    /\ rq.output.score = rq.gemini.score

\* C7 as stated: in every admitted analyzeText run whose threat-intelligence
\* layer reports no threat, the model is called on the sanitized text and the
\* verdict and score returned are the ones derived from that call.
C7_ModelAlwaysCalled == \A r \in Slots : CleanRun(r) => AnsweredByModel(req[r])

\* C7 amended: in every such run the model is called on the sanitized text and
\* the verdict and score are derived from that call, unless the quota of the
\* day or of the minute is used up: then no model call is made and the answer
\* is SUSPICIOUS with score 50.
C7_ModelCalledWithinQuota ==
    \A r \in Slots :
        CleanRun(r) =>
            \/ AnsweredByModel(req[r])
            \/ /\ \/ dailyCallCount >= DAILY_LIMIT
                  \/ Len(minuteCallTimestamps) >= MINUTE_LIMIT
               /\ req[r].modelCalls = 0 /\ req[r].quotaTaken = 0
               /\ req[r].gemini.quotaExceeded
               /\ req[r].output.provider = "Gemini"
               /\ req[r].output.verdict = "SUSPICIOUS"
               /\ req[r].output.score = Num(50)

\* C7 witness: a run without threat was answered from the model's reply, the
\* text the model was given being shorter than the text that came in
C7_AnsweredFromReply ==
    \E r \in Slots :
        /\ CleanRun(r) /\ AnsweredByModel(req[r])
        /\ req[r].text = TextImage
        /\ req[r].output.verdict = "DANGER" /\ req[r].output.score = Num(85)

\* the stages of an analyzeText run that reaches the AI layer, and of one that
\* the threat-intelligence layer ends
FullOrder == <<"rateLimit", "sanitize", "extract", "threatIntel", "threatIntelDone",
               "ai", "aiDone", "respond">>
ShortOrder == <<"rateLimit", "sanitize", "extract", "threatIntel", "threatIntelDone",
                "respond">>

\* C8: an admitted analyzeText run goes through rate-limit check, sanitize,
\* extract, threat-intelligence check, AI check, respond in this order;
\* extraction and the AI call take the sanitizer's output, and the AI call
\* starts only when the threat-intelligence result is known.
C8_FixedOrder ==
    \A r \in Slots :
        (req[r].endpoint = "analyzeText" /\ Checked(r) /\ req[r].rateLimit.success) =>
            /\ IsPrefix(req[r].log, FullOrder) \/ req[r].log = ShortOrder
            /\ req[r].sanitizedText = SanitizerOutput[req[r].text]
            /\ req[r].extractInput = req[r].sanitizedText
            /\ req[r].aiInput = req[r].sanitizedText
            /\ req[r].modelCalls > 0 => ThreatKnown(req[r])
            /\ Done(r) => req[r].log \in {FullOrder, ShortOrder}

\* C8 witness: a run has gone through all the stages, with a text that the
\* sanitizer changed and that holds a URL
C8_AllStages ==
    \E r \in Slots :
        /\ req[r].log = FullOrder /\ req[r].modelCalls = 1
        /\ req[r].sanitizedText # req[r].text
        /\ Len(req[r].allUrls) > 0

(***************************************************************************)
(* Properties of analyzeWithGemini                                         *)
(***************************************************************************)
\* the call has returned after the model gave a JSON object with a numeric score
NumericScore ==
    /\ geminiCall.pc = "returned" /\ geminiCall.admitted
    /\ geminiCall.reply.kind = "text"
    /\ Parses(JsonStr(geminiCall.reply.text))
    /\ geminiCall.reply.doc.type = "object"
    /\ geminiCall.reply.doc.score.t = "number"

Clamped(n) == IF n < 0 THEN 0 ELSE IF n > 100 THEN 100 ELSE n

Threshold(n) == IF n < 30 THEN "SAFE" ELSE IF n <= 70 THEN "SUSPICIOUS" ELSE "DANGER"

\* C9: for every numeric score of the model the result carries the score
\* clamped to 0..100 and the verdict of the clamped score alone: SAFE below 30,
\* SUSPICIOUS from 30 to 70, DANGER above 70, whatever verdict the model gave.
C9_VerdictFromClampedScore ==
    NumericScore =>
        LET n == Clamped(geminiCall.reply.doc.score.v) IN
        /\ geminiCall.result.score = Num(n)
        /\ geminiCall.result.verdict = Threshold(n)

\* C9 witness: the model said SAFE with score 30 and the result is SUSPICIOUS
C9_ModelVerdictIgnored ==
    /\ NumericScore
    /\ geminiCall.reply.doc.verdict = "SAFE"
    /\ geminiCall.reply.doc.score.v = 30
    /\ geminiCall.result.verdict = "SUSPICIOUS"

\* C10: every result analyzeWithGemini returns, on every path, has a score in
\* 0..100 and the verdict of the thresholds for that score.
C10_ResultInRange ==
    geminiCall.pc = "returned" =>
        /\ ~geminiCall.result.score.nan
        /\ geminiCall.result.score.v \in 0..100
        /\ geminiCall.result.verdict = Threshold(geminiCall.result.score.v)

(***************************************************************************)
(* Properties of the quota                                                 *)
(***************************************************************************)
\* C11: dailyCallCount never exceeds 1400 and at most 1400 model calls are
\* started on one calendar day; the counter is the number of model calls
\* started on the day of the latest quota check, so it went back to 0 at the
\* first check of a new day.
C11_DailyLimit ==
    /\ dailyCallCount <= DAILY_LIMIT
    /\ quotaLog.startedToday <= DAILY_LIMIT
    /\ dailyCallCount = quotaLog.startedToday
    /\ quotaLog.checked => lastResetDate = quotaLog.day

\* C11 witness: after a call on the first day, the first call of the next day
\* was admitted and left the counter at one
C11_NewDayReset ==
    /\ quotaLog.checked /\ quotaLog.allowed
    /\ quotaLog.day > toDateString(StartTime)
    /\ quotaLog.startedBefore = 0
    /\ dailyCallCount = 1
    /\ started = 2

\* C12: at most 14 model calls are admitted in any span of 60 seconds: a check
\* is refused when 14 admitted calls lie in the 60000 ms before it, and
\* minuteCallTimestamps never holds more than 14 entries.
C12_MinuteLimit ==
    /\ Len(minuteCallTimestamps) <= MINUTE_LIMIT
    /\ Len(quotaLog.recent) <= MINUTE_LIMIT
    /\ (quotaLog.checked /\ quotaLog.recentBefore >= MINUTE_LIMIT) => ~quotaLog.allowed

\* C12 witness: a call is refused a full minute after fourteen were admitted
C12_FifteenthRefused ==
    /\ quotaLog.checked /\ ~quotaLog.allowed
    /\ quotaLog.recentBefore = MINUTE_LIMIT
    /\ quotaLog.startedBefore < DAILY_LIMIT
    /\ quotaLog.checkedAt = quotaLog.recent[1] + MINUTE_MS

\* the latest quota check found the quota of the day or of the minute used up
DailyExhausted == quotaLog.checked /\ quotaLog.startedBefore >= DAILY_LIMIT
MinuteExhausted == quotaLog.checked /\ quotaLog.recentBefore >= MINUTE_LIMIT

\* C13: when the daily or the per-minute quota is used up analyzeWithGemini
\* makes no model call and returns score 50, SUSPICIOUS, quotaExceeded true
\* and the refusal reason as its only reason; analyzeText answers with that
\* verdict and provider Gemini.
C13_QuotaRefusal ==
    (DailyExhausted \/ MinuteExhausted) =>
        /\ geminiCall.pc = "returned" /\ ~geminiCall.admitted
        /\ geminiCall.reply = NoReply
        /\ geminiCall.result.score = Num(50)
        /\ geminiCall.result.verdict = "SUSPICIOUS"
        /\ geminiCall.result.quotaExceeded
        /\ geminiCall.result.reasons =
              <<IF DailyExhausted THEN DailyReason ELSE MinuteReason>>
        /\ GeminiOutput(geminiCall.result, NoRateLimit).verdict = "SUSPICIOUS"
        /\ GeminiOutput(geminiCall.result, NoRateLimit).provider = "Gemini"

\* C13 witness: a call was refused for the limit of the minute
C13_RefusedForMinute ==
    /\ MinuteExhausted /\ ~DailyExhausted
    /\ geminiCall.pc = "returned"
    /\ geminiCall.result.reasons = <<MinuteReason>>

(***************************************************************************)
(* Properties of the threat-intelligence layer                             *)
(***************************************************************************)
GoogleProvider == "Google Safe Browsing"
UrlscanProvider == "urlscan.io"

PhishTankProvider == "PhishTank"

\* the providers whose results a run has collected
ProvidersQueried(rq) == {rq.threat.results[k].provider : k \in DOMAIN rq.threat.results}

\* C15: in every admitted run with at least one URL and all keys configured,
\* Google Safe Browsing, PhishTank and urlscan.io are each queried unless an
\* earlier provider flagged the content.
C15_ThreeProviders ==
    \A r \in Slots :
        (ThreatKnown(req[r]) /\ Len(req[r].allUrls) > 0 /\ urlscanKey
            /\ ~Flagged(req[r])) =>
            ProvidersQueried(req[r]) = {GoogleProvider, PhishTankProvider, UrlscanProvider}

(***************************************************************************)
(* Properties of the threat-intelligence layer under long lists           *)
(***************************************************************************)
\* C16: one run of runThreatIntelligenceChecks sends at most 3 URLs to Google
\* Safe Browsing, the first 3 of the list it was given, and queries
\* urlscan.io for at most 3 domains, however long the lists are.
C16_AtMostThreePerService ==
    \A r \in Slots :
        LET rq == req[r] IN
        /\ Len(rq.submitted) <= 3
        /\ IsPrefix(rq.submitted, rq.allUrls)
        /\ (Checked(r) /\ rq.rateLimit.success) =>
              Len(rq.submitted) = (IF Len(rq.allUrls) < 3 THEN Len(rq.allUrls) ELSE 3)
        /\ rq.index <= 3
        /\ rq.index <= Len(rq.domains)
        /\ rq.fetches <= 1 + 3

\* C16 happens: a run with four URLs and four domains has sent three URLs to
\* Safe Browsing and has asked urlscan.io for two domains
C16_LongListsCut ==
    \E r \in Slots :
        /\ ThreatKnown(req[r])
        /\ Len(req[r].allUrls) = 4 /\ Len(req[r].submitted) = 3
        /\ Len(req[r].domains) = 4 /\ req[r].index = 2
        /\ Len(req[r].threat.results) = 2

\* the URLs extractUrls finds in the sanitized text, for each text that comes in
ExtractedUrls ==
    [text \in {input.text : input \in LongAnalyzeInputs} |->
        extractUrls(sanitizeEmailContent(text))]

\* an analyzeText request that was admitted
AdmittedAnalyzeText(r) ==
    /\ req[r].endpoint = "analyzeText" /\ Checked(r) /\ req[r].rateLimit.success

\* the URLs of the email: those of the sanitized text and those of input.urls
EmailUrls(rq) ==
    {ExtractedUrls[rq.text][k] : k \in DOMAIN ExtractedUrls[rq.text]}
        \cup {rq.urls[k] : k \in DOMAIN rq.urls}

Elements(xs) == {xs[k] : k \in DOMAIN xs}

\* C17: in every admitted analyzeText run every URL extracted from the
\* sanitized text and every URL of input.urls is submitted to Google Safe
\* Browsing, and an email with a URL known-malicious to Safe Browsing gets
\* verdict DANGER.
C17_EveryUrlChecked ==
    \A r \in Slots :
        AdmittedAnalyzeText(r) =>
            /\ EmailUrls(req[r]) \subseteq Elements(req[r].submitted)
            /\ (Done(r) /\ EmailUrls(req[r]) \cap MaliciousUrls # {}) =>
                  req[r].output.verdict = "DANGER"

\* C17, amended: the URLs of the sanitized text, then those of input.urls,
\* each once, make the list of the run, and its first 3 are submitted to
\* Google Safe Browsing; when the call is answered and one of the submitted
\* URLs is known-malicious, the email gets verdict DANGER.
C17_FirstThreeChecked ==
    \A r \in Slots :
        AdmittedAnalyzeText(r) =>
            LET rq == req[r] IN
            /\ rq.allUrls = Dedupe(ExtractedUrls[rq.text] \o rq.urls)
            /\ rq.submitted = SubSeq(rq.allUrls, 1, IF Len(rq.allUrls) < 3
                                                    THEN Len(rq.allUrls) ELSE 3)
            /\ (/\ Done(r)
                /\ Elements(rq.submitted) \cap MaliciousUrls # {}
                /\ rq.threat.results[1].status # "ERROR") =>
                  /\ rq.output.verdict = "DANGER"
                  /\ rq.output.provider = "ThreatIntel"

\* C17 happens: the first three of four URLs were submitted, among them a
\* client URL that Safe Browsing knows, and the answer is DANGER
C17_ClientUrlFlagged ==
    \E r \in Slots :
        /\ AdmittedAnalyzeText(r) /\ Done(r)
        /\ Len(req[r].allUrls) = 3 /\ Len(req[r].urls) = 1
        /\ req[r].submitted[3] = EvilUrl /\ req[r].urls[1] = EvilUrl
        /\ req[r].output.verdict = "DANGER"

\* runThreatIntelligenceChecks is at work for the request
InThreatIntel(rq) == rq.pc \in {"safeBrowsing", "urlscan"}

\* C20: every HTTP call of the threat-intelligence layer runs under a timer
\* of 3000 ms, and the timer is cleared when the call has answered and when
\* it has thrown; a run makes at most 3 calls, one to Safe Browsing and up to
\* two to urlscan.io, and, every call ending, it returns a result and does
\* not throw.
C20_BoundedCallsAndTermination ==
    /\ [](\A r \in Slots :
            LET rq == req[r] IN
            /\ rq.fetching => (InThreatIntel(rq) /\ rq.timer = 3000)
            /\ ~rq.fetching => rq.timer = 0
            /\ rq.fetches <= 3
            /\ rq.pc = "safeBrowsing" => rq.fetches <= 1
            /\ ThreatKnown(rq) =>
                  /\ Len(rq.threat.results) >= 1
                  /\ rq.fetches <= Len(rq.threat.results) + 1
                  /\ Done(r) => rq.outcome = "ok")
    /\ \A r \in Slots : InThreatIntel(req[r]) ~> ThreatKnown(req[r])

\* C20 happens: a run has made three calls, the third was aborted by its
\* timer, and the run has returned with the timer cleared
C20_ThirdCallAborted ==
    \E r \in Slots :
        /\ ThreatKnown(req[r])
        /\ req[r].fetches = 3 /\ req[r].timer = 0
        /\ Len(req[r].threat.results) = 2
        /\ req[r].threat.results[2].details = "Request timeout"

(***************************************************************************)
(* Properties of the extractor                                             *)
(***************************************************************************)
NoDuplicates(xs) == \A i, j \in DOMAIN xs : xs[i] = xs[j] => i = j

\* C18: the list extractUrls returns holds no URL twice, also when an address
\* occurs both as a bare "www." match and with "http://" in front, and the
\* domains of extractUrlsAndDomains hold no hostname twice.
C18_NoUrlTwice ==
    extraction.pc = "returned" =>
        /\ NoDuplicates(extraction.urls)
        /\ NoDuplicates(extraction.domains)

(***************************************************************************)
(* Properties of the server state                                          *)
(***************************************************************************)
\* the identifiers the client of the model can be given
ClientIdentifiers ==
    { RateLimitKey(endpoint, getClientIp(headers)) :
        endpoint \in {"analyzeText", "checkUrls"}, headers \in HeaderChoices }

\* the analyzeText requests whose threat-intelligence layer returns in this
\* step without a finding
ReachingModel ==
    { r \in Slots : /\ ~ThreatKnown(req[r]) /\ ThreatKnown(req'[r])
                    /\ req'[r].endpoint = "analyzeText"
                    /\ ~req'[r].threat.isMalicious }

AdmittedReturned == geminiCall.pc = "returned" /\ geminiCall.admitted

\* generateContent gave text of which JSON.parse made a value
ReplyParsed ==
    /\ geminiCall.reply.kind = "text"
    /\ Parses(JsonStr(geminiCall.reply.text))

ConservativeResult ==
    [score |-> Num(50), verdict |-> "SUSPICIOUS",
     reasons |-> <<"Unable to complete AI analysis - proceed with caution">>,
     summary |-> "AI analysis encountered an error", quotaExceeded |-> FALSE]

\* the first five of the reasons the model gave, none when they are no array
ReasonsKept ==
    LET doc == geminiCall.reply.doc IN
    IF doc.type = "object" /\ doc.reasons.isArray
    THEN SubSeq(doc.reasons.items, 1,
                IF Len(doc.reasons.items) < 5 THEN Len(doc.reasons.items) ELSE 5)
    ELSE << >>

\* C21: an admitted analyzeWithGemini call returns and never rejects; when
\* the model call fails or its text is no parsable JSON, fenced or not, it
\* returns score 50, SUSPICIOUS, the one reason "Unable to complete AI
\* analysis - proceed with caution" and no quotaExceeded flag; on a
\* successful parse it returns at most the first 5 reasons and an empty list
\* when reasons is not an array.
C21_FallbackOrParsedReasons ==
    AdmittedReturned =>
        /\ ~ReplyParsed => geminiCall.result = ConservativeResult
        /\ ReplyParsed => geminiCall.result.reasons = ReasonsKept

\* C21, amended: the conservative result is also what a reply that parses
\* to null gets (reading analysis.score throws inside the try); every other
\* parsed reply gets at most the first 5 reasons, or none when reasons is no
\* array.
C21_FallbackAlsoForNull ==
    AdmittedReturned =>
        LET fails == ~ReplyParsed \/ geminiCall.reply.doc.type = "null" IN
        /\ fails => geminiCall.result = ConservativeResult
        /\ ~fails => /\ geminiCall.result.reasons = ReasonsKept
                     /\ Len(geminiCall.result.reasons) <= 5
                     /\ ~geminiCall.result.quotaExceeded

\* C21 happens: the model gave six reasons inside a code fence and the call
\* returned the first five
C21_SixReasonsCut ==
    /\ AdmittedReturned /\ ReplyParsed
    /\ IsFence(geminiCall.reply.text[1])
    /\ Len(geminiCall.reply.doc.reasons.items) = 6
    /\ geminiCall.result.reasons = <<"r1", "r2", "r3", "r4", "r5">>

(***************************************************************************)
(* Properties of the providers' error handling                             *)
(***************************************************************************)
\* the result checkUrlscan gave to the run, when it was called
UrlscanResults(rq) ==
    SelectSeq(rq.threat.results, LAMBDA result : result.provider = UrlscanProvider)

\* C22: checkUrlscan returns MALICIOUS whenever one of the domains it asked
\* for came back with a malicious hit, whatever became of its other queries,
\* a timeout or network failure of a later query included.
C22_HitSurvivesLaterFailure ==
    \A r \in Slots :
        (ThreatKnown(req[r]) /\ Len(req[r].matchedDomains) > 0) =>
            /\ Len(UrlscanResults(req[r])) = 1
            /\ UrlscanResults(req[r])[1].status = "MALICIOUS"

\* C23: a provider result is SAFE only when every HTTP query the provider
\* made in the run was answered with response.ok and reported no match; a
\* non-OK response from Safe Browsing or from urlscan.io gives ERROR, never
\* SAFE.
C23_SafeOnlyWhenAnswered ==
    \A r \in Slots :
        ThreatKnown(req[r]) =>
            \A k \in DOMAIN req[r].threat.results :
                req[r].threat.results[k].status = "SAFE" =>
                    req[r].threat.results[k].provider \notin req[r].notOk

\* every provider result of the run is ERROR or SKIPPED
NoProviderAnswered(rq) ==
    \A k \in DOMAIN rq.threat.results : rq.threat.results[k].status \in {"ERROR", "SKIPPED"}

\* C24: the threat-intelligence layer fails open.  isMalicious is true
\* exactly when some entry of results is MALICIOUS; when every provider
\* result is ERROR or SKIPPED, isMalicious is false and maliciousReasons is
\* empty, and analyzeText goes on to the AI layer and answers with its
\* verdict.
C24_FailsOpen ==
    \A r \in Slots :
        LET rq == req[r] IN
        ThreatKnown(rq) =>
            /\ rq.threat.isMalicious <=> Flagged(rq)
            /\ NoProviderAnswered(rq) =>
                  /\ ~rq.threat.isMalicious
                  /\ rq.threat.maliciousReasons = << >>
                  /\ (rq.endpoint = "analyzeText" /\ Done(r)) =>
                        /\ rq.output.provider = "Gemini"
                        /\ rq.output.verdict = rq.gemini.verdict
                        /\ rq.output.score = rq.gemini.score
                        /\ rq.modelCalls = 1 \/ rq.gemini.quotaExceeded

\* C24 happens: Safe Browsing timed out and urlscan.io failed, the model was
\* called and its verdict is the answer
C24_BothProvidersFailed ==
    \E r \in Slots :
        /\ req[r].endpoint = "analyzeText" /\ Done(r)
        /\ Len(req[r].threat.results) = 2
        /\ req[r].threat.results[1].details = "Request timeout"
        /\ req[r].threat.results[2].status = "ERROR"
        /\ req[r].modelCalls = 1
        /\ req[r].output.provider = "Gemini"
        /\ req[r].output.verdict = "SAFE"

(***************************************************************************)
(* Properties of the quota accounting                                      *)
(***************************************************************************)
\* this step is the quota check of a call of analyzeWithGemini
QuotaChecked == started' = started + 1

NonDecreasing(xs) == \A i, j \in DOMAIN xs : i <= j => xs[i] <= xs[j]

IsSuffix(p, q) == Len(p) <= Len(q) /\ SubSeq(q, Len(q) - Len(p) + 1, Len(q)) = p

\* the timestamps of a step: none is added by a refused call, exactly one, the
\* time of the call, by an admitted call, and what the call leaves at the
\* head is no older than a minute
TimestampsKept ==
    /\ (QuotaChecked /\ ~geminiCall'.admitted) =>
          IsSuffix(minuteCallTimestamps', minuteCallTimestamps)
    /\ (QuotaChecked /\ geminiCall'.admitted) =>
          /\ minuteCallTimestamps' # << >>
          /\ minuteCallTimestamps'[Len(minuteCallTimestamps')] = now
          /\ IsSuffix(SubSeq(minuteCallTimestamps', 1, Len(minuteCallTimestamps') - 1),
                      minuteCallTimestamps)
          /\ \A k \in DOMAIN minuteCallTimestamps' :
                minuteCallTimestamps'[k] >= now - 60000
    /\ ~QuotaChecked => UNCHANGED quotaVars
    /\ NonDecreasing(minuteCallTimestamps')

\* C25: a refused call leaves dailyCallCount unchanged and appends no
\* timestamp; an admitted call adds exactly 1 to dailyCallCount and appends
\* exactly one timestamp before the model is called, and nothing is taken
\* back when the model call fails; minuteCallTimestamps stays in
\* non-decreasing order.
C25_CountedPerCall ==
    [][ /\ TimestampsKept
        /\ (QuotaChecked /\ ~geminiCall'.admitted) => dailyCallCount' = dailyCallCount
        /\ (QuotaChecked /\ geminiCall'.admitted) => dailyCallCount' = dailyCallCount + 1
      ]_vars

\* dailyCallCount as the check of this step sees it after its reset for a
\* new day (part_002:126-129)
CountAfterReset == IF toDateString(now) # lastResetDate THEN 0 ELSE dailyCallCount

\* C25, amended: the count the call starts from is dailyCallCount, or 0 when
\* the call is the first check of a new calendar day; a refused call leaves
\* that count and an admitted call adds exactly 1 to it.
C25_CountedPerCallAfterReset ==
    [][ /\ TimestampsKept
        /\ (QuotaChecked /\ ~geminiCall'.admitted) => dailyCallCount' = CountAfterReset
        /\ (QuotaChecked /\ geminiCall'.admitted) => dailyCallCount' = CountAfterReset + 1
      ]_vars

\* C25 happens: a call was admitted and counted, the model call failed, and
\* the count and the timestamp are still there
C25_FailedCallStillCounted ==
    /\ geminiCall.pc = "returned" /\ geminiCall.admitted
    /\ geminiCall.reply.kind = "throw"
    /\ quotaLog.allowed
    /\ dailyCallCount = quotaLog.startedBefore + 1
    /\ minuteCallTimestamps[Len(minuteCallTimestamps)] = quotaLog.checkedAt

\* C25 happens: the first check after midnight was refused for the limit of
\* the minute and has set the count of the day to 0
C25_RefusedAfterMidnight ==
    /\ geminiCall.pc = "returned" /\ ~geminiCall.admitted
    /\ geminiCall.result.reasons = <<MinuteReason>>
    /\ quotaLog.day > toDateString(StartTime)
    /\ dailyCallCount = 0
    /\ Len(minuteCallTimestamps) = MINUTE_LIMIT

(***************************************************************************)
(* Properties of the limiter over time                                     *)
(***************************************************************************)
\* The store of a limiter that never runs the cleanup, after the calls made
\* so far: the observer window keeps the window of every identifier that has
\* called, cleaned up or not.
Uncleaned ==
    [identifier \in {i \in DOMAIN window : window[i].open} |->
        [count |-> window[identifier].admitted,
         resetAt |-> window[identifier].start + WINDOW_MS]]

\* this step is a call of checkRateLimit (a refused call made again changes
\* nothing and is no step)
CheckRateLimitCalled == now' = now /\ lastCall' # lastCall

\* this step is a run of the cleanup that deleted something
CleanedUp == now' = now /\ lastCall' = lastCall /\ inMemoryStore' # inMemoryStore

\* C26: the cleanup deletes only records whose window has expired
\* (now > resetAt) and leaves the others as they are, and the limiter with
\* the cleanup answers every call as the limiter without it does: each call
\* gets the result checkRateLimit gives on the store that was never cleaned,
\* and that store moves on as checkRateLimit moves it.
C26_CleanupUnobservable ==
    [][ /\ CleanedUp =>
              /\ \A i \in DOMAIN inMemoryStore :
                    IF i \in DOMAIN inMemoryStore'
                    THEN inMemoryStore'[i] = inMemoryStore[i]
                    ELSE now > inMemoryStore[i].resetAt
              /\ DOMAIN inMemoryStore' \subseteq DOMAIN inMemoryStore
              /\ Uncleaned' = Uncleaned
        /\ CheckRateLimitCalled =>
              LET plain == checkRateLimit(Uncleaned, lastCall'.identifier, now) IN
              /\ lastCall'.result = plain.result
              /\ Uncleaned' = plain.store
      ]_vars

\* C26 happens: the record of a caller was deleted by the cleanup, and a call
\* was answered after that
C26_CalledAfterCleanup ==
    \E i \in DOMAIN window :
        /\ window[i].open /\ i \notin DOMAIN inMemoryStore
        /\ lastCall.identifier # None
        /\ lastCall.at = now
        /\ lastCall.at > window[i].start + WINDOW_MS

\* C29: a refused call leaves the record as it was; a call at exactly
\* resetAt still belongs to the old window; the first call strictly after
\* resetAt is admitted and opens a window with resetAt = now + 1 hour.
C29_RefusedThenAdmittedAgain ==
    [][ CheckRateLimitCalled =>
            LET identifier == lastCall'.identifier
                result == lastCall'.result
                known == identifier \in DOMAIN inMemoryStore
                record == inMemoryStore[identifier]
            IN
            /\ ~result.success =>
                  /\ inMemoryStore' = inMemoryStore
                  /\ known /\ record.count >= 10 /\ now <= record.resetAt
                  /\ result.reset = record.resetAt
            /\ (known /\ now <= record.resetAt) =>
                  /\ result.reset = record.resetAt
                  /\ inMemoryStore'[identifier].resetAt = record.resetAt
                  /\ result.success <=> record.count < 10
            /\ (known /\ now > record.resetAt) =>
                  /\ result.success
                  /\ inMemoryStore'[identifier] =
                        [count |-> 1, resetAt |-> now + 60 * 60 * 1000]
                  /\ result.reset = now + 60 * 60 * 1000
      ]_vars

\* C29 happens: a caller refused in a full window has called again after the
\* window ended and was admitted to a new window
C29_AdmittedAfterReset ==
    /\ lastCall.identifier \in DOMAIN inMemoryStore
    /\ lastCall.result.success
    /\ lastCall.at = now
    /\ inMemoryStore[lastCall.identifier] = [count |-> 1, resetAt |-> now + WINDOW_MS]
    /\ window[lastCall.identifier].start = now
    /\ now > StartTime + WINDOW_MS
    /\ lastCall.admittedBefore = 0

\* C29 happens at the boundary: a caller whose window is full has called at
\* exactly resetAt and was refused
C29_RefusedAtReset ==
    /\ lastCall.identifier \in DOMAIN inMemoryStore
    /\ ~lastCall.result.success
    /\ lastCall.at = now
    /\ now = inMemoryStore[lastCall.identifier].resetAt
    /\ lastCall.result.reset = now

(***************************************************************************)
(* Requests in flight at once.  Node runs a procedure from one await to    *)
(* the next without interruption, and the requests interleave at the       *)
(* awaits: the rate-limit call (gemini.ts:188), each HTTP call             *)
(* (threat-apis.ts:88, 156) and the model call (part_002:254).  The        *)
(* in-memory path of checkRateLimit (rate-limit.ts:53-84) and              *)
(* checkAndUpdateQuota (part_002:121-158) hold no await, so each is part   *)
(* of one step.                                                            *)
(***************************************************************************)
\* the analyzeText requests sent at once
ConcurrentInputs ==
    { [text |-> TextPlain, urls |-> << >>],
      [text |-> TextEvil,  urls |-> << >>] }

\* Before the requests arrive the server has admitted, at StartTime, served
\* requests of the caller without headers (admitLog holds their times and
\* stays as it is), and has started calls model calls (quotaLog.recent holds
\* their times and stays as it is).
InitConcurrent ==
    /\ now = StartTime
    /\ lastCall = NoCall
    /\ urlscanKey \in BOOLEAN
    /\ req = [r \in Slots |-> Idle]
    /\ started = 0
    /\ geminiCall = NoAnalysis
    /\ extraction = NoExtraction
    /\ lastResetDate = toDateString(StartTime)
    /\ \E served \in {MAX_REQUESTS_PER_WINDOW - 2, MAX_REQUESTS_PER_WINDOW - 1} :
          /\ admitLog = [k \in 1..served |-> StartTime]
          /\ inMemoryStore = (Anonymous :> [count |-> served,
                                            resetAt |-> StartTime + WINDOW_MS])
          /\ clientWindow = [open |-> TRUE, start |-> StartTime,
                             admitted |-> served, analyzeText |-> served]
          /\ window = (Anonymous :> clientWindow)
    /\ \E calls \in {MINUTE_LIMIT - 2, MINUTE_LIMIT - 1} :
          /\ dailyCallCount = calls
          /\ minuteCallTimestamps = [k \in 1..calls |-> StartTime]
    /\ quotaLog = QuotaLogOf(dailyCallCount, minuteCallTimestamps)

\* half a minute passes while no HTTP call is open (an HTTP call is aborted
\* after API_TIMEOUT); the run stays within the minute after StartTime
HalfMinutePasses ==
    /\ now + HalfMinute <= StartTime + MINUTE_MS
    /\ \A r \in Slots : ~req[r].fetching
    /\ now' = now + HalfMinute
    /\ UNCHANGED <<inMemoryStore, lastCall, window, admitLog>>
    /\ UNCHANGED routerVars

NextConcurrent ==
    \/ HalfMinutePasses
    \/ \E r \in Slots, input \in ConcurrentInputs :
          Receive(r, "analyzeText", NoHeaders, input)
    \/ \E r \in Slots : Admit(r)
    \/ \E r \in Slots, outcome \in FetchOutcomes : SafeBrowsingDone(r, outcome)
    \/ \E r \in Slots, outcome \in FetchOutcomes : UrlscanDone(r, outcome)
    \/ \E r \in Slots, reply \in GeminiReplies : GeminiDone(r, reply)

SpecConcurrent == InitConcurrent /\ [][NextConcurrent]_vars

(***************************************************************************)
(* Properties of requests in flight at once                                *)
(***************************************************************************)
\* the requests among S that the limiter admitted
AdmittedOf(S) == Cardinality({r \in S : req[r].pc # "idle" /\ req[r].rateLimit.success})

\* the model calls that the requests among S started
RECURSIVE ModelCallsOf(_)
ModelCallsOf(S) ==
    IF S = {} THEN 0
    ELSE LET r == CHOOSE x \in S : TRUE IN
         req[r].modelCalls + ModelCallsOf(S \ {r})

\* C27: however the requests in flight interleave, the caller has at most 10
\* requests admitted in the window and at most 14 model calls are started
\* within 60 seconds, and the counters have lost no update: they count the
\* admissions and the model calls made before and by the requests in flight.
C27_NoInterleavingOverAdmits ==
    /\ Len(admitLog) + AdmittedOf(Slots) <= 10
    /\ Len(quotaLog.recent) + ModelCallsOf(Slots) <= 14
    /\ inMemoryStore[Anonymous].count = Len(admitLog) + AdmittedOf(Slots)
    /\ Len(minuteCallTimestamps) = Len(quotaLog.recent) + ModelCallsOf(Slots)
    /\ dailyCallCount = Len(quotaLog.recent) + ModelCallsOf(Slots)
    /\ \A k \in DOMAIN minuteCallTimestamps : minuteCallTimestamps[k] >= now - 60000

\* C27 happens: while one request waits for the model with the 14th call of
\* the minute, the other, admitted by the limiter as well, was refused by
\* the quota check
C27_SecondRefusedWhileFirstWaits ==
    \E r1, r2 \in Slots :
        /\ req[r1].pc = "gemini" /\ req[r1].modelCalls = 1
        /\ req[r2].pc = "done" /\ req[r2].rateLimit.success
        /\ req[r2].gemini.quotaExceeded /\ req[r2].modelCalls = 0
        /\ Len(minuteCallTimestamps) = MINUTE_LIMIT

\* and with the limiter: both requests were received before either went on,
\* and the second was refused as the 11th of the window
C27_EleventhRefusedInFlight ==
    \E r1, r2 \in Slots :
        /\ req[r1].pc = "rateLimit" /\ req[r1].rateLimit.success
        /\ req[r2].pc = "rateLimit" /\ ~req[r2].rateLimit.success
        /\ inMemoryStore[Anonymous].count = MAX_REQUESTS_PER_WINDOW

(***************************************************************************)
(* Properties of getQuotaStatus                                            *)
(***************************************************************************)
\* what the scan router's getQuotaStatus query answers now (gemini.ts:275-277)
QuotaStatusNow == getQuotaStatus(Quota, now)

\* C28: at every instant getQuotaStatus reports dailyRemaining > 0 and
\* minuteRemaining > 0 exactly when a call of analyzeWithGemini made at that
\* instant would be admitted by checkAndUpdateQuota, also on the first call
\* after the calendar day has changed.
C28_StatusTellsAdmission ==
    (QuotaStatusNow.dailyRemaining > 0 /\ QuotaStatusNow.minuteRemaining > 0)
        <=> checkAndUpdateQuota(Quota, now).allowed

\* within the calendar day of the latest quota check the report is right
C28_StatusRightWithinDay ==
    toDateString(now) = lastResetDate => C28_StatusTellsAdmission

\* the day has changed since the daily limit was reached: the report still
\* says that nothing remains, and the next call is admitted
C28_StaleAfterMidnight ==
    /\ toDateString(now) # lastResetDate
    /\ QuotaStatusNow.dailyRemaining = 0
    /\ checkAndUpdateQuota(Quota, now).allowed

====
